---- MODULE Spec2Model ----
(***************************************************************************)
(* A model of the factorio-harmonizer core: the modification tracker       *)
(* (src/modification_tracker.py) and the dependency analyzer               *)
(* (src/dependency_analyzer.py) that reads it.                             *)
(*                                                                         *)
(* Python values are tagged records:                                       *)
(*   None   [tag |-> "None"]                                               *)
(*   int    [tag |-> "int", n |-> 0]                                       *)
(*   str    [tag |-> "str", s |-> "text"]                                  *)
(*   list   [tag |-> "list", items |-> <<v1, v2, ...>>]                    *)
(*   dict   [tag |-> "dict", pairs |-> << <<k1, v1>>, <<k2, v2>>, ... >>]  *)
(*          (the keys, strs, in the order they were inserted)              *)
(* A str is a string of characters: keys are built by concatenation and    *)
(* split, searched and iterated character by character, as the code does.  *)
(***************************************************************************)
EXTENDS Integers, Sequences, FiniteSets, TLC

VARIABLES
    prototype_histories,   \* ModificationTracker.prototype_histories (insertion-ordered dict)
    current_mod_context,   \* ModificationTracker.current_mod_context
    data_raw_snapshot,     \* ModificationTracker.data_raw_snapshot
    hash_order,            \* the iteration order this process gives to a set of mod names, by the order they were added
    last_call,             \* the last operation called, its arguments and what it saw
    analyzer,              \* whether a DependencyAnalyzer has been constructed on the tracker
    planet_resources,      \* DependencyAnalyzer.planet_resources (insertion-ordered dict)
    dependency_graph,      \* DependencyAnalyzer.dependency_graph
    prototype_analyses,    \* DependencyAnalyzer.prototype_analyses
    all_issues,            \* DependencyAnalyzer.all_issues
    report,                \* the ModCompatibilityReport last returned by analyze_dependencies
    patches                \* the list last returned by generate_patch_suggestions, empty before

tracker_vars == <<prototype_histories, current_mod_context, data_raw_snapshot>>
analyzer_vars == <<analyzer, planet_resources, dependency_graph, prototype_analyses, all_issues, report, patches>>
vars == <<prototype_histories, current_mod_context, data_raw_snapshot, hash_order, last_call, analyzer, planet_resources, dependency_graph, prototype_analyses, all_issues, report, patches>>

----------------------------------------------------------------------------
(* Bounds of the model *)

MaxRecords == 3

----------------------------------------------------------------------------
(* Python values *)

None == [tag |-> "None"]
PyInt(n) == [tag |-> "int", n |-> n]
PyStr(s) == [tag |-> "str", s |-> s]
PyList(items) == [tag |-> "list", items |-> items]
\* a dict literal: its key/value pairs in the order they are written
Dict(pairs) == [tag |-> "dict", pairs |-> pairs]
EmptyDict == Dict(<<>>)

IsDict(v) == v.tag = "dict"
IsList(v) == v.tag = "list"
IsStr(v) == v.tag = "str"
DictKeys(v) == { v.pairs[i][1] : i \in 1..Len(v.pairs) }
HasKey(v, k) == \E i \in 1..Len(v.pairs) : v.pairs[i][1] = k

\* the characters of a str, in order
Chars(s) == [i \in 1..Len(s) |-> SubSeq(s, i, i)]

\* `sub in s`, for two strs
Contains(s, sub) ==
    \E i \in 1..(Len(s) - Len(sub) + 1) : SubSeq(s, i, i + Len(sub) - 1) = sub

\* s.startswith(prefix)
StartsWith(s, prefix) == Len(s) >= Len(prefix) /\ SubSeq(s, 1, Len(prefix)) = prefix

\* Python truth value of a value (what `if v` and `v and ...` test)
Truthy(v) ==
    CASE v.tag = "None" -> FALSE
      [] v.tag = "int" -> v.n # 0
      [] v.tag = "str" -> Len(v.s) > 0
      [] v.tag = "list" -> Len(v.items) > 0
      [] v.tag = "dict" -> Len(v.pairs) > 0
      [] v.tag = "bool" -> v.b
      [] OTHER -> TRUE

\* a local name for an intermediate result, computed once
With(value, Body(_)) == Body(value)

----------------------------------------------------------------------------
(* Keys *)

Dot == "."

\* f"{prototype_type}.{prototype_name}"
create_prototype_key(prototype_type, prototype_name) ==
    prototype_type \o Dot \o prototype_name

----------------------------------------------------------------------------
(* Ordered-dict helpers for prototype_histories *)

HistIdx(H, key) ==
    IF \E i \in 1..Len(H) : H[i].key = key
    THEN CHOOSE i \in 1..Len(H) : H[i].key = key
    ELSE 0

HasHistory(H, key) == HistIdx(H, key) # 0

RECURSIVE SumLen(_, _)
SumLen(H, i) == IF i = 0 THEN 0 ELSE Len(H[i].modifications) + SumLen(H, i - 1)
TotalRecords(H) == SumLen(H, Len(H))

----------------------------------------------------------------------------
(* ModificationTracker *)

NoCall == [op |-> "none"]

\* an add_modification that sets current_value only on the first record
add_modification_KeepFirst(history, record) ==
    [history EXCEPT !.modifications = Append(@, record),
                    !.current_value = IF Len(history.modifications) = 0
                                      THEN record.new_value ELSE @]

\* an add_modification that keeps only the latest record
add_modification_Replace(history, record) ==
    [history EXCEPT !.modifications = <<record>>,
                    !.current_value = record.new_value]

\* PrototypeHistory.add_modification
add_modification(history, record) ==
    [history EXCEPT !.modifications = Append(@, record),
                    !.current_value = record.new_value]

\* PrototypeHistory(prototype_type, prototype_name)
NewHistory(key, prototype_type, prototype_name) ==
    [key |-> key, prototype_type |-> prototype_type, prototype_name |-> prototype_name,
     modifications |-> <<>>, current_value |-> None]

\* self.prototype_histories[key].add_modification(record), the history being
\* created first when the key has none
StoreRecord(H, key, prototype_type, prototype_name, record) ==
    IF HasHistory(H, key)
    THEN [H EXCEPT ![HistIdx(H, key)] = add_modification(@, record)]
    ELSE Append(H, add_modification(NewHistory(key, prototype_type, prototype_name), record))

\* the ModificationRecord built by track_prototype_addition
AdditionRecord(H, ctx, prototype_type, prototype_name, prototype_data) ==
    LET key == create_prototype_key(prototype_type, prototype_name)
        exists == HasHistory(H, key)
        old_value == IF exists THEN H[HistIdx(H, key)].current_value ELSE None
    IN [prototype_type |-> prototype_type,
        prototype_name |-> prototype_name,
        mod_name |-> ctx.mod_name,
        file_path |-> ctx.file_path,
        line_number |-> ctx.line_number,
        operation |-> IF exists THEN "overwrite" ELSE "create",
        old_value |-> IF Truthy(old_value) THEN old_value ELSE None,
        new_value |-> prototype_data,
        field_path |-> ""]

\* the ModificationRecord built by track_prototype_modification
ModificationRecord(ctx, prototype_type, prototype_name, field_path, old_value, new_value) ==
    [prototype_type |-> prototype_type,
     prototype_name |-> prototype_name,
     mod_name |-> ctx.mod_name,
     file_path |-> ctx.file_path,
     line_number |-> ctx.line_number,
     operation |-> "modify",
     old_value |-> old_value,
     new_value |-> new_value,
     field_path |-> field_path]

\* `if not self.current_mod_context`: the context is None or the dict of
\* three keys set_mod_context builds, kept as a record of its three values
NoContext(ctx) == ~Truthy(ctx)

\* ModificationTracker.prototype_histories after track_prototype_addition
AdditionHistories(H, ctx, prototype_type, prototype_name, prototype_data) ==
    IF NoContext(ctx) THEN H
    ELSE StoreRecord(H, create_prototype_key(prototype_type, prototype_name),
                     prototype_type, prototype_name,
                     AdditionRecord(H, ctx, prototype_type, prototype_name, prototype_data))

\* ModificationTracker.data_raw_snapshot after track_prototype_addition
AdditionSnapshot(S, ctx, prototype_type, prototype_name, prototype_data) ==
    IF NoContext(ctx) THEN S
    ELSE [p \in DOMAIN S \cup {<<prototype_type, prototype_name>>} |->
             IF p = <<prototype_type, prototype_name>> THEN prototype_data ELSE S[p]]

\* a track_prototype_modification that trusts its caller to have set a context
ModificationHistories_Unguarded(H, ctx, prototype_type, prototype_name, field_path, old_value, new_value) ==
    StoreRecord(H, create_prototype_key(prototype_type, prototype_name),
                prototype_type, prototype_name,
                ModificationRecord(IF NoContext(ctx)
                                   THEN [mod_name |-> "unknown", file_path |-> "unknown",
                                         line_number |-> None]
                                   ELSE ctx,
                                   prototype_type, prototype_name, field_path,
                                   old_value, new_value))

\* a track_prototype_modification that only records changes to known prototypes
ModificationHistories_KnownOnly(H, ctx, prototype_type, prototype_name, field_path, old_value, new_value) ==
    IF NoContext(ctx) \/ ~HasHistory(H, create_prototype_key(prototype_type, prototype_name))
    THEN H
    ELSE StoreRecord(H, create_prototype_key(prototype_type, prototype_name),
                     prototype_type, prototype_name,
                     ModificationRecord(ctx, prototype_type, prototype_name, field_path,
                                        old_value, new_value))

\* ModificationTracker.prototype_histories after track_prototype_modification
ModificationHistories(H, ctx, prototype_type, prototype_name, field_path, old_value, new_value) ==
    IF NoContext(ctx) THEN H
    ELSE StoreRecord(H, create_prototype_key(prototype_type, prototype_name),
                     prototype_type, prototype_name,
                     ModificationRecord(ctx, prototype_type, prototype_name, field_path,
                                        old_value, new_value))

\* what the call is about and what the tracker held when it was made
CallInfo(op, prototype_type, prototype_name) ==
    LET key == create_prototype_key(prototype_type, prototype_name)
        i == HistIdx(prototype_histories, key)
    IN [op |-> op, key |-> key,
        had_context |-> current_mod_context # None,
        had_history |-> i # 0,
        prev_len |-> IF i = 0 THEN 0 ELSE Len(prototype_histories[i].modifications),
        prev_current |-> IF i = 0 THEN None ELSE prototype_histories[i].current_value]

----------------------------------------------------------------------------
(* get_conflicts *)

\* list(mod_names): the members of a set in this process's iteration order,
\* the set being given by the order its members were first added; a set of
\* one member or none has one order
ListOfSet(added) == IF Len(added) <= 1 THEN added ELSE hash_order[added]

RECURSIVE ModNamesUpTo(_, _)
\* the set built by `for record in history.modifications: mod_names.add(record.mod_name)`,
\* as the sequence of its members in the order they were first added
ModNamesUpTo(mods, n) ==
    IF n = 0 THEN <<>>
    ELSE With(ModNamesUpTo(mods, n - 1),
              LAMBDA rest : IF \E i \in 1..Len(rest) : rest[i] = mods[n].mod_name
                            THEN rest ELSE Append(rest, mods[n].mod_name))

\* a list with one more member put in at position p
InsertAt(order, member, p) ==
    SubSeq(order, 1, p - 1) \o <<member>> \o SubSeq(order, p, Len(order))

RECURSIVE DecideOrders(_, _)
\* the ways a process can order the sets added in the sequences of S, given
\* the ways F it orders others: a set lives in one hash table while it has
\* four members or fewer, so adding a member leaves the members before it in
\* their slots and puts the new one in the first free slot of its probe
\* sequence, which the string hash seed of the process decides
DecideOrders(F, S) ==
    IF S = {} THEN F
    ELSE LET s == CHOOSE x \in S : \A y \in S : Len(x) <= Len(y)
             front == SubSeq(s, 1, Len(s) - 1)
         IN DecideOrders({ f @@ (s :> InsertAt(IF Len(front) <= 1 THEN front ELSE f[front],
                                               s[Len(s)], p)) :
                              f \in F, p \in 1..Len(s) },
                         S \ {s})

\* a sequence of distinct names and those it begins with, from two names on
Beginnings(s) == { SubSeq(s, 1, n) : n \in 2..Len(s) }

RECURSIVE AllModificationsUpTo(_, _)
\* the records of the first n histories, history by history
AllModificationsUpTo(H, n) ==
    IF n = 0 THEN <<>> ELSE AllModificationsUpTo(H, n - 1) \o H[n].modifications

\* the sets of mod names an analysis of these histories lists: one per
\* history (get_conflicts) and one over all records (_generate_report)
ListedSets(H) ==
    UNION ({ Beginnings(ModNamesUpTo(H[k].modifications, Len(H[k].modifications))) :
                k \in 1..Len(H) }
           \cup { Beginnings(ModNamesUpTo(AllModificationsUpTo(H, Len(H)),
                                          TotalRecords(H))) })

\* the orders of the process once the histories are H: those it has, and one
\* more for each set of mod names of H that it has not had to order before.
\* The string hash seed of the process fixes them all when it starts; an order
\* is represented from the moment the ledger holds the set it is the order of
OrdersFor(H) == DecideOrders({hash_order}, ListedSets(H) \ DOMAIN hash_order)

\* ModificationTracker: the ingestion interface

set_mod_context(mod_name, file_path, line_number) ==
    /\ current_mod_context' = [tag |-> "context", mod_name |-> mod_name,
                               file_path |-> file_path, line_number |-> line_number]
    /\ last_call' = [op |-> "set_mod_context"]
    /\ UNCHANGED <<prototype_histories, data_raw_snapshot, hash_order, analyzer_vars>>

clear_mod_context ==
    /\ current_mod_context' = None
    /\ last_call' = [op |-> "clear_mod_context"]
    /\ UNCHANGED <<prototype_histories, data_raw_snapshot, hash_order, analyzer_vars>>

track_prototype_addition(prototype_type, prototype_name, prototype_data) ==
    /\ TotalRecords(prototype_histories) < MaxRecords
    /\ last_call' = CallInfo("track_prototype_addition", prototype_type, prototype_name)
    /\ prototype_histories' = AdditionHistories(prototype_histories, current_mod_context,
                                  prototype_type, prototype_name, prototype_data)
    /\ data_raw_snapshot' = AdditionSnapshot(data_raw_snapshot, current_mod_context,
                                  prototype_type, prototype_name, prototype_data)
    /\ hash_order' \in OrdersFor(prototype_histories')
    /\ UNCHANGED <<current_mod_context, analyzer_vars>>

track_prototype_modification(prototype_type, prototype_name, field_path, old_value, new_value) ==
    /\ TotalRecords(prototype_histories) < MaxRecords
    /\ last_call' = CallInfo("track_prototype_modification", prototype_type, prototype_name)
    /\ prototype_histories' = ModificationHistories(prototype_histories, current_mod_context,
                                  prototype_type, prototype_name, field_path,
                                  old_value, new_value)
    /\ hash_order' \in OrdersFor(prototype_histories')
    /\ UNCHANGED <<data_raw_snapshot, current_mod_context, analyzer_vars>>

RECURSIVE ConflictsUpTo_ByCount(_, _)
\* a get_conflicts that counts records instead of distinct mods
ConflictsUpTo_ByCount(H, n) ==
    IF n = 0 THEN <<>>
    ELSE LET mod_names == ModNamesUpTo(H[n].modifications, Len(H[n].modifications))
             rest == ConflictsUpTo_ByCount(H, n - 1)
         IN IF Len(H[n].modifications) > 1
            THEN Append(rest, [key |-> H[n].key, mods |-> ListOfSet(mod_names)])
            ELSE rest

get_conflicts_ByCount(H) == ConflictsUpTo_ByCount(H, Len(H))

RECURSIVE ConflictsUpTo(_, _)
\* the list built by the loop of get_conflicts over the first n histories
ConflictsUpTo(H, n) ==
    IF n = 0 THEN <<>>
    ELSE LET mod_names == ModNamesUpTo(H[n].modifications, Len(H[n].modifications))
             rest == ConflictsUpTo(H, n - 1)
         IN IF Len(mod_names) > 1
            THEN Append(rest, [key |-> H[n].key, mods |-> ListOfSet(mod_names)])
            ELSE rest

\* ModificationTracker.get_conflicts
get_conflicts(H) == ConflictsUpTo(H, Len(H))

----------------------------------------------------------------------------
(* data_models.parse_prototype_key and dict helpers *)

\* the position of the first separator of a key, 0 when it has none
FirstDot(key) ==
    IF \E i \in 1..Len(key) : SubSeq(key, i, i) = Dot
    THEN CHOOSE i \in 1..Len(key) :
            SubSeq(key, i, i) = Dot /\ \A j \in 1..(i - 1) : SubSeq(key, j, j) # Dot
    ELSE 0

\* a parse_prototype_key that splits at the last separator, as rsplit('.', 1) does
parse_prototype_key_LastDot(key) ==
    LET last == CHOOSE i \in 1..Len(key) :
                    SubSeq(key, i, i) = Dot
                        /\ \A j \in (i + 1)..Len(key) : SubSeq(key, j, j) # Dot
    IN <<SubSeq(key, 1, last - 1), SubSeq(key, last + 1, Len(key))>>

\* parse_prototype_key: prototype_key.split('.', 1), for a key that has a separator
parse_prototype_key(key) ==
    <<SubSeq(key, 1, FirstDot(key) - 1), SubSeq(key, FirstDot(key) + 1, Len(key))>>

\* d[k], for a key the dict has
At(d, k) == d.pairs[CHOOSE i \in 1..Len(d.pairs) : d.pairs[i][1] = k][2]

\* d.get(k, default)
Get(d, k, default) == IF HasKey(d, k) THEN At(d, k) ELSE default

\* d[k] = v: a key the dict has keeps its place, a new key goes last
SetItem(d, k, v) ==
    IF HasKey(d, k)
    THEN Dict([i \in 1..Len(d.pairs) |-> IF d.pairs[i][1] = k THEN <<k, v>> ELSE d.pairs[i]])
    ELSE Dict(Append(d.pairs, <<k, v>>))

\* the keys of a dict in insertion order: what iterating it, or its keys(), yields
KeysOf(d) == [i \in 1..Len(d.pairs) |-> d.pairs[i][1]]

\* assignment into a dict of the analyzer modelled as a function
Assign(f, k, v) == [x \in DOMAIN f \cup {k} |-> IF x = k THEN v ELSE f[x]]

T_recipe == "recipe"
T_item == "item"
T_technology == "technology"
T_planet == "planet"
T_resource == "resource"
Nauvis == "nauvis"

----------------------------------------------------------------------------
(* DependencyAnalyzer: the dependency graph *)

Dependency(source_type, source_name, target_type, target_name, dependency_type, amount) ==
    [source_type |-> source_type, source_name |-> source_name,
     target_type |-> target_type, target_name |-> target_name,
     dependency_type |-> dependency_type, required |-> TRUE, amount |-> amount]

\* the dependency one entry of a recipe's ingredients list yields, if any
IngredientDependency(recipe_name, ingredient) ==
    LET is_dict == IsDict(ingredient)
        is_pair == IsList(ingredient) /\ Len(ingredient.items) >= 2
        item_name == IF is_dict THEN Get(ingredient, "name", None) ELSE ingredient.items[1]
        item_type == IF is_dict THEN Get(ingredient, "type", PyStr(T_item)) ELSE PyStr(T_item)
        amount == IF is_dict THEN Get(ingredient, "amount", PyInt(1)) ELSE ingredient.items[2]
    IN IF (is_dict \/ is_pair) /\ Truthy(item_name)
       THEN <<Dependency(T_recipe, recipe_name, item_type.s, item_name.s,
                         "RECIPE_INGREDIENT", amount)>>
       ELSE <<>>

RECURSIVE IngredientDependencies(_, _, _)
IngredientDependencies(recipe_name, items, n) ==
    IF n = 0 THEN <<>>
    ELSE IngredientDependencies(recipe_name, items, n - 1)
             \o IngredientDependency(recipe_name, items[n])

\* _analyze_recipe_dependencies
analyze_recipe_dependencies(recipe_data) ==
    LET recipe_name == Get(recipe_data, "name", PyStr("")).s
        ingredients == Get(recipe_data, "ingredients", PyList(<<>>))
        category == Get(recipe_data, "category", PyStr("crafting"))
    IN (IF IsList(ingredients)
        THEN IngredientDependencies(recipe_name, ingredients.items, Len(ingredients.items))
        ELSE <<>>)
       \o (IF category # PyStr("crafting")
           THEN <<Dependency(T_recipe, recipe_name, "recipe-category", category.s,
                             "CRAFTING_CATEGORY", None)>>
           ELSE <<>>)

\* the names `for prereq in prerequisites` binds in turn: the items of a
\* list, the characters of a str, the keys of a dict in insertion order
IterNames(prerequisites) ==
    CASE IsList(prerequisites) ->
           [i \in 1..Len(prerequisites.items) |-> prerequisites.items[i].s]
      [] IsStr(prerequisites) -> Chars(prerequisites.s)
      [] IsDict(prerequisites) -> KeysOf(prerequisites)

\* `for prereq in prerequisites` raises TypeError when the value is not
\* iterable: None, an int or a bool
TechnologyRaises(tech_data) ==
    Get(tech_data, "prerequisites", PyList(<<>>)).tag \in {"None", "int", "bool"}

\* _analyze_technology_dependencies, for iterable prerequisites
analyze_technology_dependencies(tech_data) ==
    LET tech_name == Get(tech_data, "name", PyStr("")).s
        prereqs == IterNames(Get(tech_data, "prerequisites", PyList(<<>>)))
    IN [i \in 1..Len(prereqs) |->
           Dependency(T_technology, tech_name, T_technology, prereqs[i],
                      "TECHNOLOGY_PREREQUISITE", None)]

\* _analyze_item_dependencies
analyze_item_dependencies(item_data) ==
    LET item_name == Get(item_data, "name", PyStr("")).s
        fuel_category == Get(item_data, "fuel_category", None)
    IN IF Truthy(fuel_category)
       THEN <<Dependency(T_item, item_name, "fuel-category", fuel_category.s,
                         "FUEL_CATEGORY", None)>>
       ELSE <<>>

\* whether the loop body of _build_dependency_graph skips this history
SkipsInvalid(h) == ~Truthy(h.current_value) \/ ~IsDict(h.current_value)

\* the exception the loop body of _build_dependency_graph raises on this history
GraphRaises(h) ==
    IF ~SkipsInvalid(h) /\ parse_prototype_key(h.key)[1] = T_technology
          /\ TechnologyRaises(h.current_value)
    THEN "TypeError" ELSE "none"

\* the dependencies the loop body of _build_dependency_graph extracts
ExtractDependencies(h) ==
    LET prototype_type == parse_prototype_key(h.key)[1]
    IN IF SkipsInvalid(h) THEN <<>>
       ELSE CASE prototype_type = T_recipe -> analyze_recipe_dependencies(h.current_value)
              [] prototype_type = T_technology -> analyze_technology_dependencies(h.current_value)
              [] prototype_type = T_item -> analyze_item_dependencies(h.current_value)
              [] OTHER -> <<>>

RECURSIVE BuildGraphUpTo(_, _, _)
\* _build_dependency_graph after the first n histories: the graph so far and
\* the exception that ended the loop, if one did
BuildGraphUpTo(H, G, n) ==
    IF n = 0 THEN [graph |-> G, raised |-> "none"]
    ELSE LET before == BuildGraphUpTo(H, G, n - 1)
         IN IF before.raised # "none" THEN before
            ELSE IF GraphRaises(H[n]) # "none"
            THEN [graph |-> before.graph, raised |-> GraphRaises(H[n])]
            ELSE IF ExtractDependencies(H[n]) # <<>>
            THEN [graph |-> Assign(before.graph, H[n].key, ExtractDependencies(H[n])),
                  raised |-> "none"]
            ELSE before

\* _build_dependency_graph
build_dependency_graph(H, G) == BuildGraphUpTo(H, G, Len(H))

----------------------------------------------------------------------------
(* DependencyAnalyzer: planets and availability *)

PlanetIdx(P, planet) ==
    IF \E i \in 1..Len(P) : P[i].planet = planet
    THEN CHOOSE i \in 1..Len(P) : P[i].planet = planet
    ELSE 0

\* planet_resources[planet] = resources
SetPlanet(P, planet, resources) ==
    IF PlanetIdx(P, planet) # 0
    THEN [P EXCEPT ![PlanetIdx(P, planet)].resources = resources]
    ELSE Append(P, [planet |-> planet, resources |-> resources])

\* self.planet_resources.get(planet, set())
PlanetResources(P, planet) ==
    IF PlanetIdx(P, planet) # 0 THEN P[PlanetIdx(P, planet)].resources ELSE {}

\* set(autoplace_controls.keys()): the keys of a dict as resource names
KeyNames(d) == DictKeys(d)

\* whether the planet branch of the loop body raises on this prototype:
\* map_gen_settings.get and autoplace_controls.keys exist on a dict only
PlanetRaises(current_data) ==
    \/ ~IsDict(Get(current_data, "map_gen_settings", EmptyDict))
    \/ ~IsDict(Get(Get(current_data, "map_gen_settings", EmptyDict),
                   "autoplace_controls", EmptyDict))

RECURSIVE ExtractPlanetsUpTo(_, _)
\* _extract_planet_resources_from_mods after the first n histories: the
\* planets so far and the exception that ended the loop, if one did
ExtractPlanetsUpTo(H, n) ==
    IF n = 0 THEN [planets |-> <<>>, raised |-> "none"]
    ELSE LET before == ExtractPlanetsUpTo(H, n - 1)
             P == before.planets
             prototype_type == parse_prototype_key(H[n].key)[1]
             prototype_name == parse_prototype_key(H[n].key)[2]
             current_data == H[n].current_value
         IN IF before.raised # "none" THEN before
            ELSE IF SkipsInvalid(H[n]) THEN before
            ELSE IF prototype_type = T_planet
            THEN IF PlanetRaises(current_data)
                 THEN [before EXCEPT !.raised = "AttributeError"]
                 ELSE LET map_gen_settings == Get(current_data, "map_gen_settings", EmptyDict)
                          autoplace_controls ==
                              Get(map_gen_settings, "autoplace_controls", EmptyDict)
                      IN IF KeyNames(autoplace_controls) # {}
                         THEN [before EXCEPT !.planets =
                                  SetPlanet(P, prototype_name, KeyNames(autoplace_controls))]
                         ELSE before
            ELSE IF prototype_type = T_resource
                    /\ Truthy(Get(current_data, "autoplace", EmptyDict))
            THEN [before EXCEPT !.planets =
                     SetPlanet(P, Nauvis, PlanetResources(P, Nauvis) \cup {prototype_name})]
            ELSE before

\* _extract_planet_resources_from_mods: the dict it returns, or the
\* exception it raises instead
extract_planet_resources_from_mods(H) == ExtractPlanetsUpTo(H, Len(H))

\* key.startswith("recipe.")
StartsWithRecipe(key) == StartsWith(key, "recipe.")

\* whether the loop of _is_item_available_on_planet returns on this history
Produces(h, item_name) ==
    /\ StartsWithRecipe(h.key)
    /\ ~SkipsInvalid(h)
    /\ LET results == Get(h.current_value, "results", Get(h.current_value, "result", None))
       IN \/ IsStr(results) /\ results.s = item_name
          \/ /\ IsList(results)
             /\ \E i \in 1..Len(results.items) :
                   /\ IsDict(results.items[i])
                   /\ Get(results.items[i], "name", None) = PyStr(item_name)

\* the last history, in insertion order, that produces the item (0: none)
FirstProducer_Latest(H, item_name) ==
    IF \E i \in 1..Len(H) : Produces(H[i], item_name)
    THEN CHOOSE i \in 1..Len(H) :
            Produces(H[i], item_name) /\ \A j \in (i + 1)..Len(H) : ~Produces(H[j], item_name)
    ELSE 0

\* the first history, in insertion order, on which that loop returns (0: none)
FirstProducer(H, item_name) ==
    IF \E i \in 1..Len(H) : Produces(H[i], item_name)
    THEN CHOOSE i \in 1..Len(H) :
            Produces(H[i], item_name) /\ \A j \in 1..(i - 1) : ~Produces(H[j], item_name)
    ELSE 0

RecursionLimit == 10

RECURSIVE is_item_available_on_planet(_, _, _, _, _, _)
RECURSIVE is_recipe_available_on_planet(_, _, _, _, _, _)
RECURSIVE IngredientsAvailableFrom(_, _, _, _, _, _, _)

\* an _is_item_available_on_planet that looks for a producing recipe before it
\* looks at the planet's resources
is_item_available_on_planet_RecipesFirst(H, G, P, item_name, planet, depth) ==
    IF depth > RecursionLimit THEN "RecursionError"
    ELSE IF FirstProducer(H, item_name) # 0
    THEN is_recipe_available_on_planet(H, G, P, H[FirstProducer(H, item_name)].key,
                                       planet, depth + 1)
    ELSE IF item_name \in PlanetResources(P, planet) THEN "True"
    ELSE "False"

\* _is_item_available_on_planet, called at the given stack depth: "True",
\* "False", or "RecursionError" when the interpreter's stack is exhausted
is_item_available_on_planet(H, G, P, item_name, planet, depth) ==
    IF depth > RecursionLimit THEN "RecursionError"
    ELSE IF item_name \in PlanetResources(P, planet) THEN "True"
    ELSE IF FirstProducer(H, item_name) # 0
    THEN is_recipe_available_on_planet(H, G, P, H[FirstProducer(H, item_name)].key,
                                       planet, depth + 1)
    ELSE "False"

\* the loop of _is_recipe_available_on_planet from the i-th dependency on
IngredientsAvailableFrom(H, G, P, dependencies, i, planet, depth) ==
    IF i > Len(dependencies) THEN "True"
    ELSE IF dependencies[i].dependency_type # "RECIPE_INGREDIENT"
    THEN IngredientsAvailableFrom(H, G, P, dependencies, i + 1, planet, depth)
    ELSE LET r == is_item_available_on_planet(H, G, P, dependencies[i].target_name,
                                              planet, depth + 1)
         IN IF r = "True"
            THEN IngredientsAvailableFrom(H, G, P, dependencies, i + 1, planet, depth)
            ELSE r

\* _is_recipe_available_on_planet
is_recipe_available_on_planet(H, G, P, recipe_key, planet, depth) ==
    IF depth > RecursionLimit THEN "RecursionError"
    ELSE IngredientsAvailableFrom(H, G, P,
             IF recipe_key \in DOMAIN G THEN G[recipe_key] ELSE <<>>, 1, planet, depth)

----------------------------------------------------------------------------
(* DependencyAnalyzer: per-prototype analysis *)

\* [record.mod_name for record in history.modifications]
ModNames(h) == [k \in 1..Len(h.modifications) |-> h.modifications[k].mod_name]

\* _check_missing_dependencies
check_missing_dependencies(H, dependencies) ==
    SelectSeq(dependencies,
              LAMBDA dep :
                  /\ ~HasHistory(H, create_prototype_key(dep.target_type, dep.target_name))
                  /\ dep.target_type \notin {"recipe-category", "fuel-category"})

RECURSIVE AvailabilityUpTo(_, _, _, _, _)
\* _analyze_availability after the first n planets
AvailabilityUpTo(H, G, P, dependencies, n) ==
    IF n = 0 THEN [available |-> <<>>, unavailable |-> <<>>, raised |-> "none"]
    ELSE LET before == AvailabilityUpTo(H, G, P, dependencies, n - 1)
             context == [planet |-> P[n].planet, available_resources |-> P[n].resources,
                         mod_context |-> {}]
         IN IF before.raised # "none" THEN before
            ELSE With(IngredientsAvailableFrom(H, G, P, dependencies, 1, P[n].planet, 0),
                      LAMBDA is_available :
                          IF is_available = "True"
                          THEN [before EXCEPT !.available = Append(@, context)]
                          ELSE IF is_available = "False"
                          THEN [before EXCEPT !.unavailable = Append(@, context)]
                          ELSE [before EXCEPT !.raised = is_available])

\* _analyze_availability
analyze_availability(H, G, P, dependencies) == AvailabilityUpTo(H, G, P, dependencies, Len(P))

AnalysisIdx(A, key) ==
    IF \E i \in 1..Len(A) : A[i].prototype_key = key
    THEN CHOOSE i \in 1..Len(A) : A[i].prototype_key = key
    ELSE 0

\* self.prototype_analyses[key] = analysis
SetAnalysis(A, analysis) ==
    IF AnalysisIdx(A, analysis.prototype_key) # 0
    THEN [A EXCEPT ![AnalysisIdx(A, analysis.prototype_key)] = analysis]
    ELSE Append(A, analysis)

\* the PrototypeAnalysis built by the loop body of _analyze_prototypes
Analysis(H, G, h, availability) ==
    [prototype_key |-> h.key,
     prototype_type |-> parse_prototype_key(h.key)[1],
     prototype_name |-> parse_prototype_key(h.key)[2],
     modification_count |-> Len(h.modifications),
     modifying_mods |-> ModNames(h),
     is_conflicted |-> Cardinality({ModNames(h)[k] : k \in 1..Len(h.modifications)}) > 1,
     dependencies |-> IF h.key \in DOMAIN G THEN G[h.key] ELSE <<>>,
     dependents |-> <<>>,
     missing_dependencies |->
         check_missing_dependencies(H, IF h.key \in DOMAIN G THEN G[h.key] ELSE <<>>),
     available_contexts |-> availability.available,
     unavailable_contexts |-> availability.unavailable,
     issues |-> <<>>]

RECURSIVE AnalyzeUpTo(_, _, _, _, _)
\* _analyze_prototypes after the first n histories: the analyses so far and the
\* exception that ended the loop, if one did
AnalyzeUpTo(H, G, P, A, n) ==
    IF n = 0 THEN [analyses |-> A, raised |-> "none"]
    ELSE LET before == AnalyzeUpTo(H, G, P, A, n - 1)
             dependencies == IF H[n].key \in DOMAIN G THEN G[H[n].key] ELSE <<>>
         IN IF before.raised # "none" THEN before
            ELSE With(analyze_availability(H, G, P, dependencies),
                      LAMBDA availability :
                          IF availability.raised # "none"
                          THEN [before EXCEPT !.raised = availability.raised]
                          ELSE [before EXCEPT !.analyses =
                                   SetAnalysis(@, Analysis(H, G, H[n], availability))])

\* _analyze_prototypes
analyze_prototypes(H, G, P, A) == AnalyzeUpTo(H, G, P, A, Len(H))

----------------------------------------------------------------------------
(* DependencyAnalyzer: conflict detection *)

\* the upper case of the lower-case letters; every other character of the
\* names here (capitals, digits, punctuation) is its own upper case
Uppercase ==
    [a |-> "A", b |-> "B", c |-> "C", d |-> "D", e |-> "E", f |-> "F", g |-> "G",
     h |-> "H", i |-> "I", j |-> "J", k |-> "K", l |-> "L", m |-> "M", n |-> "N",
     o |-> "O", p |-> "P", q |-> "Q", r |-> "R", s |-> "S", t |-> "T", u |-> "U",
     v |-> "V", w |-> "W", x |-> "X", y |-> "Y", z |-> "Z"]

RECURSIVE UpperUpTo(_, _)
\* the upper case of the first n characters of a name
UpperUpTo(name, n) ==
    IF n = 0 THEN ""
    ELSE UpperUpTo(name, n - 1)
             \o With(SubSeq(name, n, n),
                     LAMBDA c : IF c \in DOMAIN Uppercase THEN Uppercase[c] ELSE c)

\* name.upper()
Upper(name) == UpperUpTo(name, Len(name))

\* the recipes _analyze_prototype_conflict and _detect_mod_recipe_conflicts
\* treat as early-game essentials
Essential == {"burner-inserter", "inserter", "transport-belt"}

\* ConflictIssue(...): the fields the analysis and the patch generator read;
\* of root_cause, a sentence, the names it lists (none unless a pass lists some)
Issue(issue_id, severity, key, mods, field_path, old_values) ==
    [issue_id |-> issue_id, severity |-> severity, affected_prototypes |-> <<key>>,
     conflicting_mods |-> mods, field_path |-> field_path, old_values |-> old_values,
     root_cause |-> <<>>]

RECURSIVE AvailableCountUpTo(_, _, _, _, _)
\* available_count of _is_item_widely_available after the first n planets
AvailableCountUpTo(H, G, P, item_name, n) ==
    IF n = 0 THEN [count |-> 0, raised |-> "none"]
    ELSE LET before == AvailableCountUpTo(H, G, P, item_name, n - 1)
         IN IF before.raised # "none" THEN before
            ELSE With(is_item_available_on_planet(H, G, P, item_name, P[n].planet, 1),
                      LAMBDA r : IF r = "True" THEN [before EXCEPT !.count = @ + 1]
                                 ELSE IF r = "False" THEN before
                                 ELSE [before EXCEPT !.raised = r])

\* an _is_item_widely_available that asks for every configured planet
is_item_widely_available_EveryPlanet(H, G, P, item_name) ==
    With(AvailableCountUpTo(H, G, P, item_name, Len(P)),
         LAMBDA counted :
             IF counted.raised # "none" THEN counted.raised
             ELSE IF counted.count >= Len(P) THEN "True" ELSE "False")

\* total_planets * 0.75, a float: the product is a whole number of quarters,
\* which a double holds exactly
ThreeQuarters(total_planets) ==
    [whole |-> (3 * total_planets) \div 4, quarters |-> (3 * total_planets) % 4]

\* count >= x for an int and a float: Python compares the two exactly
IntGeFloat(count, x) == count > x.whole \/ (count = x.whole /\ x.quarters = 0)

\* _is_item_widely_available: available_count >= total_planets * 0.75
is_item_widely_available(H, G, P, item_name) ==
    With(AvailableCountUpTo(H, G, P, item_name, Len(P)),
         LAMBDA counted :
             IF counted.raised # "none" THEN counted.raised
             ELSE IF IntGeFloat(counted.count, ThreeQuarters(Len(P))) THEN "True"
             ELSE "False")

RECURSIVE ProblematicUpTo(_, _, _, _, _)
\* problematic_ingredients of _create_critical_recipe_conflict after the first
\* n entries of the final ingredient list
ProblematicUpTo(H, G, P, items, n) ==
    IF n = 0 THEN [names |-> <<>>, raised |-> "none"]
    ELSE LET before == ProblematicUpTo(H, G, P, items, n - 1)
             item_name == Get(items[n], "name", None)
         IN IF before.raised # "none" THEN before
            ELSE IF ~(IsDict(items[n]) /\ Truthy(item_name)) THEN before
            ELSE With(is_item_widely_available(H, G, P, item_name.s),
                      LAMBDA widely :
                          IF widely = "True" THEN before
                          ELSE IF widely = "False"
                          THEN [before EXCEPT !.names = Append(@, item_name.s)]
                          ELSE [before EXCEPT !.raised = widely])

\* _create_critical_recipe_conflict: the issue, if one is made, as a list of
\* at most one element
create_critical_recipe_conflict(H, G, P, key, mods, h) ==
    LET prototype_name == parse_prototype_key(key)[2]
        ingredient_changes ==
            SelectSeq(h.modifications, LAMBDA record : record.field_path = "ingredients")
        final_ingredients == ingredient_changes[Len(ingredient_changes)].new_value
        \* iterating a dict or a string yields no dict elements
        items == IF IsList(final_ingredients) THEN final_ingredients.items ELSE <<>>
    IN IF ingredient_changes = <<>> THEN [issues |-> <<>>, raised |-> "none"]
       ELSE IF final_ingredients.tag \in {"None", "int", "bool"}
       THEN [issues |-> <<>>, raised |-> "TypeError"]
       ELSE With(ProblematicUpTo(H, G, P, items, Len(items)),
                 LAMBDA problematic :
                     IF problematic.raised # "none"
                     THEN [issues |-> <<>>, raised |-> problematic.raised]
                     ELSE [issues |->
                               <<Issue("CRITICAL_RECIPE_" \o Upper(prototype_name),
                                       IF problematic.names # <<>> THEN "critical"
                                       ELSE "high",
                                       key, mods, "ingredients", EmptyDict)>>,
                           raised |-> "none"])

\* _create_availability_conflict, as a list of at most one element
create_availability_conflict(key, mods, analysis) ==
    LET unavailable_planets ==
            SelectSeq([k \in 1..Len(analysis.unavailable_contexts) |->
                          analysis.unavailable_contexts[k].planet],
                      LAMBDA planet : planet # "")
    IN IF unavailable_planets = <<>> THEN <<>>
       ELSE <<Issue("AVAILABILITY_" \o Upper(analysis.prototype_name),
                    IF \E k \in 1..Len(unavailable_planets) :
                          unavailable_planets[k] = "lignumis"
                    THEN "critical" ELSE "high",
                    key, mods, "", EmptyDict)>>

\* _create_generic_conflict
create_generic_conflict(key, mods) ==
    LET prototype_type == parse_prototype_key(key)[1]
        prototype_name == parse_prototype_key(key)[2]
    IN Issue("CONFLICT_" \o Upper(prototype_type) \o "_" \o Upper(prototype_name),
             CASE prototype_type = T_recipe -> "high"
               [] prototype_type = T_item -> "medium"
               [] prototype_type = T_technology -> "medium"
               [] OTHER -> "low",
             key, mods, "", EmptyDict)

\* _analyze_prototype_conflict
analyze_prototype_conflict(H, G, P, A, key, mods) ==
    LET prototype_type == parse_prototype_key(key)[1]
        prototype_name == parse_prototype_key(key)[2]
        history_key == create_prototype_key(prototype_type, prototype_name)
        availability ==
            IF AnalysisIdx(A, key) # 0 /\ A[AnalysisIdx(A, key)].unavailable_contexts # <<>>
            THEN create_availability_conflict(key, mods, A[AnalysisIdx(A, key)])
            ELSE <<>>
    IN IF ~HasHistory(H, history_key) THEN [issues |-> <<>>, raised |-> "none"]
       ELSE With(IF prototype_type = T_recipe /\ prototype_name \in Essential
                 THEN create_critical_recipe_conflict(H, G, P, key, mods,
                                                      H[HistIdx(H, history_key)])
                 ELSE [issues |-> <<>>, raised |-> "none"],
                 LAMBDA critical :
                     IF critical.raised # "none" THEN critical
                     ELSE With(critical.issues \o availability,
                               LAMBDA issues :
                                   [issues |-> IF issues = <<>>
                                               THEN <<create_generic_conflict(key, mods)>>
                                               ELSE issues,
                                    raised |-> "none"]))

RECURSIVE ConflictLoopUpTo(_, _, _, _, _, _)
\* the first loop of _detect_conflicts after the first n conflicts: the
\* analyses, the issue list, and the exception that ended the loop, if any
ConflictLoopUpTo(H, G, P, A, I, n) ==
    IF n = 0 THEN [analyses |-> A, issues |-> I, raised |-> "none"]
    ELSE LET before == ConflictLoopUpTo(H, G, P, A, I, n - 1)
             conflict == get_conflicts(H)[n]
             idx == AnalysisIdx(before.analyses, conflict.key)
         IN IF before.raised # "none" THEN before
            ELSE With(analyze_prototype_conflict(H, G, P, before.analyses,
                                                 conflict.key, conflict.mods),
                      LAMBDA found :
                          IF found.raised # "none"
                          THEN [before EXCEPT !.raised = found.raised]
                          ELSE [analyses |->
                                    IF idx # 0
                                    THEN [before.analyses EXCEPT
                                             ![idx].issues = @ \o found.issues]
                                    ELSE before.analyses,
                                issues |-> before.issues \o found.issues,
                                raised |-> "none"])

RECURSIVE MissingDependencyIssuesUpTo(_, _)
\* the issues _detect_missing_dependency_conflicts appends for the first n analyses
MissingDependencyIssuesUpTo(A, n) ==
    IF n = 0 THEN <<>>
    ELSE LET rest == MissingDependencyIssuesUpTo(A, n - 1)
         IN IF A[n].missing_dependencies # <<>>
            THEN Append(rest,
                     [Issue("MISSING_DEPS_"
                                \o Upper(parse_prototype_key(A[n].prototype_key)[2]),
                            "high", A[n].prototype_key, A[n].modifying_mods,
                            "", EmptyDict)
                      EXCEPT !.root_cause =
                          [k \in 1..Len(A[n].missing_dependencies) |->
                              A[n].missing_dependencies[k].target_name]])
            ELSE rest

\* tech_dependencies of _detect_broken_research_chains, in insertion order
TechDependencies(H, G) ==
    LET techs == SelectSeq(H, LAMBDA h : parse_prototype_key(h.key)[1] = T_technology)
    IN [k \in 1..Len(techs) |->
           LET deps == IF techs[k].key \in DOMAIN G THEN G[techs[k].key] ELSE <<>>
               prereqs == SelectSeq(deps,
                              LAMBDA dep : dep.dependency_type = "TECHNOLOGY_PREREQUISITE")
           IN [tech_name |-> parse_prototype_key(techs[k].key)[2],
               prereqs |-> [j \in 1..Len(prereqs) |-> prereqs[j].target_name]]]

RECURSIVE ScanUpTo(_, _, _)
\* one pass of the inner loop of the search over the first n technologies:
\* those it queues and the reachable set it leaves
ScanUpTo(T, reachable, n) ==
    IF n = 0 THEN [queued |-> <<>>, reachable |-> reachable]
    ELSE LET before == ScanUpTo(T, reachable, n - 1)
         IN IF /\ T[n].tech_name \notin before.reachable
               /\ \A j \in 1..Len(T[n].prereqs) : T[n].prereqs[j] \in before.reachable
            THEN [queued |-> Append(before.queued, T[n].tech_name),
                  reachable |-> before.reachable \cup {T[n].tech_name}]
            ELSE before

RECURSIVE ReachableFrom(_, _, _)
\* the breadth-first search of _detect_broken_research_chains
ReachableFrom(T, tech_queue, reachable) ==
    IF tech_queue = <<>> THEN reachable
    ELSE LET scan == ScanUpTo(T, reachable, Len(T))
         IN ReachableFrom(T, Tail(tech_queue) \o scan.queued, scan.reachable)

\* reachable_techs when the search ends
reachable_techs(T) ==
    LET roots == SelectSeq(T, LAMBDA tech : tech.prereqs = <<>>)
    IN ReachableFrom(T, [k \in 1..Len(roots) |-> roots[k].tech_name],
                     {roots[k].tech_name : k \in 1..Len(roots)})

RECURSIVE BrokenChainIssuesUpTo(_, _, _)
\* the issues _detect_broken_research_chains appends for the first n technologies
BrokenChainIssuesUpTo(H, T, n) ==
    IF n = 0 THEN <<>>
    ELSE LET rest == BrokenChainIssuesUpTo(H, T, n - 1)
             missing_prereqs ==
                 SelectSeq(T[n].prereqs,
                           LAMBDA prereq : \A k \in 1..Len(T) : T[k].tech_name # prereq)
             tech_key == create_prototype_key(T_technology, T[n].tech_name)
         IN IF T[n].tech_name \notin reachable_techs(T) /\ missing_prereqs # <<>>
            THEN Append(rest,
                     [Issue("BROKEN_CHAIN_" \o T[n].tech_name, "high", tech_key,
                            IF HasHistory(H, tech_key)
                            THEN ModNames(H[HistIdx(H, tech_key)]) ELSE <<>>,
                            "", EmptyDict)
                      EXCEPT !.root_cause = missing_prereqs])
            ELSE rest

RECURSIVE ModRecipesUpTo(_, _)
\* mod_recipes: per mod, in order of first appearance, its last "ingredients" value
ModRecipesUpTo(mods, n) ==
    IF n = 0 THEN <<>>
    ELSE LET rest == ModRecipesUpTo(mods, n - 1)
             entry == [mod_name |-> mods[n].mod_name, new_value |-> mods[n].new_value]
         IN IF mods[n].field_path # "ingredients" THEN rest
            ELSE IF \E k \in 1..Len(rest) : rest[k].mod_name = entry.mod_name
            THEN [k \in 1..Len(rest) |->
                     IF rest[k].mod_name = entry.mod_name THEN entry ELSE rest[k]]
            ELSE Append(rest, entry)

RECURSIVE RecipeConflictIssuesUpTo(_, _)
\* the issues the first loop of _detect_mod_recipe_conflicts appends for the
\* first n conflicts
RecipeConflictIssuesUpTo(H, n) ==
    IF n = 0 THEN <<>>
    ELSE LET rest == RecipeConflictIssuesUpTo(H, n - 1)
             conflict == get_conflicts(H)[n]
             prototype_type == parse_prototype_key(conflict.key)[1]
             prototype_name == parse_prototype_key(conflict.key)[2]
             history_key == create_prototype_key(prototype_type, prototype_name)
             history == H[HistIdx(H, history_key)]
         IN IF /\ prototype_type = T_recipe
               /\ HasHistory(H, history_key)
               /\ Len(history.modifications) > 1
            THEN Append(rest,
                     Issue("MOD_RECIPE_CONFLICT_" \o Upper(prototype_name),
                           IF prototype_name \in Essential THEN "critical" ELSE "high",
                           conflict.key, conflict.mods, "",
                           [tag |-> "dict",
                            mod_recipes |-> ModRecipesUpTo(history.modifications,
                                                           Len(history.modifications))]))
            ELSE rest

RECURSIVE MentionsIngredients(_)
\* 'ingredients' in str(value)
MentionsIngredients(v) ==
    CASE v.tag = "dict" ->
             \E k \in 1..Len(v.pairs) :
                 \/ Contains(v.pairs[k][1], "ingredients")
                 \/ MentionsIngredients(v.pairs[k][2])
      [] v.tag = "list" -> \E k \in 1..Len(v.items) : MentionsIngredients(v.items[k])
      [] v.tag = "str" -> Contains(v.s, "ingredients")
      [] OTHER -> FALSE

\* whether a record counts as an ingredient change in _detect_mod_recipe_conflicts
ChangesIngredients(record) ==
    \/ record.field_path = "ingredients"
    \/ record.field_path = "" /\ MentionsIngredients(record.new_value)

RECURSIVE VariantLoopUpTo(_, _, _)
\* the issue list after the second loop of _detect_mod_recipe_conflicts has
\* visited the first n histories
VariantLoopUpTo(H, I, n) ==
    IF n = 0 THEN I
    ELSE LET before == VariantLoopUpTo(H, I, n - 1)
             prototype_type == parse_prototype_key(H[n].key)[1]
             prototype_name == parse_prototype_key(H[n].key)[2]
             changes == SelectSeq(H[n].modifications, ChangesIngredients)
             existing_conflict ==
                 \E k \in 1..Len(before) :
                     before[k].issue_id = "MOD_RECIPE_CONFLICT_" \o Upper(prototype_name)
             tech_conflicts == SelectSeq(get_conflicts(H), LAMBDA c : c.key = H[n].key)
         IN IF prototype_type = T_recipe /\ Len(H[n].modifications) >= 1
            THEN IF changes # <<>> /\ ~existing_conflict
                 THEN Append(before,
                          Issue("RECIPE_VARIANT_" \o Upper(prototype_name),
                                IF prototype_name \in Essential THEN "high" ELSE "medium",
                                H[n].key, <<changes[1].mod_name>>, "",
                                [tag |-> "dict", mod_modification |-> changes[1].new_value,
                                 mod_name |-> changes[1].mod_name]))
                 ELSE before
            ELSE IF /\ prototype_type = T_technology
                    /\ tech_conflicts # <<>>
                    /\ Len(tech_conflicts[1].mods) > 1
            THEN Append(before,
                     Issue("MOD_TECH_CONFLICT_" \o Upper(prototype_name), "high",
                           H[n].key, tech_conflicts[1].mods, "", EmptyDict))
            ELSE before

\* _detect_mod_recipe_conflicts
detect_mod_recipe_conflicts(H, I) ==
    VariantLoopUpTo(H, I \o RecipeConflictIssuesUpTo(H, Len(get_conflicts(H))), Len(H))

\* _detect_conflicts
detect_conflicts(H, G, P, A, I) ==
    With(ConflictLoopUpTo(H, G, P, A, I, Len(get_conflicts(H))),
         LAMBDA first :
             IF first.raised # "none" THEN first
             ELSE [first EXCEPT !.issues =
                      detect_mod_recipe_conflicts(H,
                          @ \o MissingDependencyIssuesUpTo(first.analyses, Len(first.analyses))
                            \o With(TechDependencies(H, G),
                                    LAMBDA T : BrokenChainIssuesUpTo(H, T, Len(T))))])

\* the number of issues of one severity
CountSeverity(I, severity) ==
    Cardinality({k \in 1..Len(I) : I[k].severity = severity})

\* _generate_report: the report's own fields; its all_issues, prototype_analyses
\* and dependency_graph are the analyzer's own objects
generate_report(H, A, I) ==
    [tag |-> "report",
     analyzed_mods |-> ListOfSet(ModNamesUpTo(AllModificationsUpTo(H, Len(H)),
                                              TotalRecords(H))),
     total_prototypes |-> Len(A),
     conflicted_prototypes |-> Cardinality({k \in 1..Len(A) : A[k].is_conflicted}),
     critical_issues |-> CountSeverity(I, "critical"),
     high_issues |-> CountSeverity(I, "high"),
     medium_issues |-> CountSeverity(I, "medium"),
     low_issues |-> CountSeverity(I, "low")]

\* analyze_dependencies: what the four steps leave in the analyzer, the report
\* returned, and the exception raised instead when a step fails
analyze_dependencies(H, G, P, A, I) ==
    With(build_dependency_graph(H, G), LAMBDA built :
        IF built.raised # "none"
        THEN [graph |-> built.graph, analyses |-> A, issues |-> I,
              report |-> None, raised |-> built.raised]
        ELSE With(analyze_prototypes(H, built.graph, P, A), LAMBDA analyzed :
            IF analyzed.raised # "none"
            THEN [graph |-> built.graph, analyses |-> analyzed.analyses, issues |-> I,
                  report |-> None, raised |-> analyzed.raised]
            ELSE With(detect_conflicts(H, built.graph, P, analyzed.analyses, I),
                      LAMBDA detected :
                IF detected.raised # "none"
                THEN [graph |-> built.graph, analyses |-> detected.analyses,
                      issues |-> detected.issues, report |-> None,
                      raised |-> detected.raised]
                ELSE [graph |-> built.graph, analyses |-> detected.analyses,
                      issues |-> detected.issues,
                      report |-> generate_report(H, detected.analyses, detected.issues),
                      raised |-> "none"])))

----------------------------------------------------------------------------
(* DependencyAnalyzer: patch suggestions *)

\* "<type>." in proto
ContainsTypeDot(key, type_name) == Contains(key, type_name \o Dot)

\* sorted(issues, key=severity_order.index): a stable sort, most severe first
sort_by_severity(issues) ==
    SelectSeq(issues, LAMBDA issue : issue.severity = "critical")
        \o SelectSeq(issues, LAMBDA issue : issue.severity = "high")
        \o SelectSeq(issues, LAMBDA issue : issue.severity = "medium")
        \o SelectSeq(issues, LAMBDA issue : issue.severity = "low")
        \o SelectSeq(issues, LAMBDA issue : issue.severity = "info")

\* a field of the variant left unset
NotSet == [tag |-> "unset"]

\* whether hash(v) is defined: a list or a dict is unhashable
Hashable(v) == v.tag \notin {"list", "dict"}

\* the number an int or a bool stands for
Number(v) == IF v.tag = "bool" THEN (IF v.b THEN 1 ELSE 0) ELSE v.n

\* a == b, for two hashable values: an int and a bool are equal when they are
\* the same number (1 == True), values of other types when they are the same
PyEq(a, b) ==
    IF a.tag \in {"int", "bool"} /\ b.tag \in {"int", "bool"}
    THEN Number(a) = Number(b)
    ELSE a = b

\* the lower case of the capital letters; every other character is its own
Lowercase ==
    [A |-> "a", B |-> "b", C |-> "c", D |-> "d", E |-> "e", F |-> "f", G |-> "g",
     H |-> "h", I |-> "i", J |-> "j", K |-> "k", L |-> "l", M |-> "m", N |-> "n",
     O |-> "o", P |-> "p", Q |-> "q", R |-> "r", S |-> "s", T |-> "t", U |-> "u",
     V |-> "v", W |-> "w", X |-> "x", Y |-> "y", Z |-> "z"]

RECURSIVE LowerUpTo(_, _)
\* the lower case of the first n characters of a name
LowerUpTo(name, n) ==
    IF n = 0 THEN ""
    ELSE LowerUpTo(name, n - 1)
             \o With(SubSeq(name, n, n),
                     LAMBDA c : IF c \in DOMAIN Lowercase THEN Lowercase[c] ELSE c)

\* name.lower()
Lower(name) == LowerUpTo(name, Len(name))

RECURSIVE ReplaceUpTo(_, _, _, _)
\* the first n characters of a name with every character in `old` replaced
ReplaceUpTo(name, old, new, n) ==
    IF n = 0 THEN ""
    ELSE ReplaceUpTo(name, old, new, n - 1)
             \o With(SubSeq(name, n, n), LAMBDA c : IF c \in old THEN new ELSE c)

\* mod_name.replace("-", "_").replace(" ", "_").lower()
CleanModName(mod_name) == Lower(ReplaceUpTo(mod_name, {"-", " "}, "_", Len(mod_name)))

\* mod_name.lower().replace("-", "_")
ResearchVariableName(mod_name) ==
    ReplaceUpTo(Lower(mod_name), {"-"}, "_", Len(mod_name))

\* the characters str.strip('"\'') removes from both ends
QuoteChars == {"\"", "'"}

RECURSIVE LStrip(_)
LStrip(s) ==
    IF Len(s) > 0 /\ SubSeq(s, 1, 1) \in QuoteChars THEN LStrip(SubSeq(s, 2, Len(s))) ELSE s

RECURSIVE RStrip(_)
RStrip(s) ==
    IF Len(s) > 0 /\ SubSeq(s, Len(s), Len(s)) \in QuoteChars
    THEN RStrip(SubSeq(s, 1, Len(s) - 1)) ELSE s

\* s.strip('"\'')
StripQuotes(s) == RStrip(LStrip(s))

\* one entry of the Lua table _convert_ingredients_to_lua prints
LuaItem(type, name, amount) == [type |-> type, name |-> name, amount |-> amount]

\* ingredient_data of one element of the list, as a list of at most one
\* entry; ingredient_key is the pair (type, name) of that entry
IngredientData(ingredient) ==
    IF IsDict(ingredient)
    THEN IF HasKey(ingredient, "type") /\ HasKey(ingredient, "name") /\ HasKey(ingredient, "amount")
         THEN <<LuaItem(At(ingredient, "type"), At(ingredient, "name"),
                        At(ingredient, "amount"))>>
         ELSE IF HasKey(ingredient, "name") /\ HasKey(ingredient, "amount")
         THEN <<LuaItem(PyStr(T_item), At(ingredient, "name"), At(ingredient, "amount"))>>
         ELSE <<>>
    ELSE IF IsList(ingredient) /\ Len(ingredient.items) >= 2
    THEN <<LuaItem(PyStr(T_item), ingredient.items[1], ingredient.items[2])>>
    ELSE IF IsStr(ingredient)
    THEN <<LuaItem(PyStr(T_item), ingredient, PyInt(1))>>
    ELSE <<>>

RECURSIVE UniqueIngredientsUpTo(_, _)
\* unique_ingredients after the first n elements: the first entry of each
\* (type, name) key. `ingredient_key not in seen_ingredients` hashes the key,
\* which raises TypeError when the type or the name is a list or a dict, and
\* finds a key that is equal to it as Python compares tuples
UniqueIngredientsUpTo(items, n) ==
    IF n = 0 THEN [items |-> <<>>, raised |-> "none"]
    ELSE With(UniqueIngredientsUpTo(items, n - 1),
              LAMBDA rest :
         With(IngredientData(items[n]),
              LAMBDA data :
                  IF rest.raised # "none" \/ data = <<>> THEN rest
                  ELSE IF ~Hashable(data[1].type) \/ ~Hashable(data[1].name)
                  THEN [rest EXCEPT !.raised = "TypeError"]
                  ELSE IF \E k \in 1..Len(rest.items) :
                             /\ PyEq(rest.items[k].type, data[1].type)
                             /\ PyEq(rest.items[k].name, data[1].name)
                  THEN rest
                  ELSE [rest EXCEPT !.items = Append(@, data[1])]))

\* _convert_ingredients_to_lua: the Lua text, kept as the table it spells
\* out, or the exception the call ends with
convert_ingredients_to_lua(ingredients) ==
    IF ~Truthy(ingredients)
    THEN [lua |-> [form |-> "table", items |-> <<>>], raised |-> "none"]
    ELSE IF IsStr(ingredients)
    THEN [lua |-> [form |-> "verbatim", text |-> ingredients.s], raised |-> "none"]
    ELSE IF IsList(ingredients)
    THEN With(UniqueIngredientsUpTo(ingredients.items, Len(ingredients.items)),
              LAMBDA unique :
                  [lua |-> [form |-> "table", items |-> unique.items],
                   raised |-> unique.raised])
    ELSE [lua |-> [form |-> "str", value |-> ingredients], raised |-> "none"]

\* the fields of new_value a record copies into its mod's recipe data
CopiedKeys(new_value) == DictKeys(new_value) \ {"modified_by", "modifications"}

RECURSIVE CopyItemsUpTo(_, _, _)
\* the recipe data after `for key, value in record.new_value.items()` has
\* copied the first n items
CopyItemsUpTo(recipe_data, new_value, n) ==
    IF n = 0 THEN recipe_data
    ELSE With(CopyItemsUpTo(recipe_data, new_value, n - 1),
              LAMBDA copied :
                  IF new_value.pairs[n][1] \in CopiedKeys(new_value)
                  THEN SetItem(copied, new_value.pairs[n][1], new_value.pairs[n][2])
                  ELSE copied)

\* mod_recipe_data[mod_name] after one more record of that mod
RecipeDataAfter(recipe_data, record) ==
    IF Truthy(record.new_value) /\ IsDict(record.new_value)
    THEN CopyItemsUpTo(recipe_data, record.new_value, Len(record.new_value.pairs))
    ELSE IF /\ record.field_path \in {"ingredients", "results",
                                      "energy_required", "category"}
            /\ Truthy(record.new_value)
    THEN SetItem(recipe_data, record.field_path, record.new_value)
    ELSE recipe_data

RECURSIVE ModRecipeDataUpTo(_, _, _)
\* mod_recipe_data of _create_recipe_patch after the first n records, in order
\* of each mod's first record
ModRecipeDataUpTo(prototype_name, mods, n) ==
    IF n = 0 THEN <<>>
    ELSE LET rest == ModRecipeDataUpTo(prototype_name, mods, n - 1)
             mod_name == mods[n].mod_name
             fresh == Dict(<< <<"name", PyStr(prototype_name)>>,
                              <<"type", PyStr(T_recipe)>>,
                              <<"enabled", [tag |-> "bool", b |-> TRUE]>> >>)
         IN IF \E k \in 1..Len(rest) : rest[k].mod_name = mod_name
            THEN [k \in 1..Len(rest) |->
                     IF rest[k].mod_name = mod_name
                     THEN [rest[k] EXCEPT !.recipe_data = RecipeDataAfter(@, mods[n])]
                     ELSE rest[k]]
            ELSE Append(rest, [mod_name |-> mod_name,
                               recipe_data |-> RecipeDataAfter(fresh, mods[n])])

\* whether a mod's recipe data passes the filter into valid_mod_data
HasRecipeData(recipe_data) ==
    \/ Truthy(Get(recipe_data, "ingredients", None))
    \/ Truthy(Get(recipe_data, "results", None))
    \/ Truthy(Get(recipe_data, "category", None))

\* the variant recipe the patch's Lua code defines for one mod, and the
\* exception that writing it ends with: the ingredients are converted first,
\* then the results, and the category is stripped of quote characters last,
\* which a value that is not a str does not support
Variant(prototype_name, entry) ==
    LET ingredients == IF Truthy(Get(entry.recipe_data, "ingredients", None))
                       THEN convert_ingredients_to_lua(At(entry.recipe_data, "ingredients"))
                       ELSE [lua |-> NotSet, raised |-> "none"]
        results == IF Truthy(Get(entry.recipe_data, "results", None))
                   THEN convert_ingredients_to_lua(At(entry.recipe_data, "results"))
                   ELSE IF prototype_name # ""
                   THEN [lua |-> [form |-> "table",
                                  items |-> <<LuaItem(PyStr(T_item), PyStr(prototype_name),
                                                      PyInt(1))>>],
                         raised |-> "none"]
                   ELSE [lua |-> NotSet, raised |-> "none"]
        category == Get(entry.recipe_data, "category", None)
    IN [mod_name |-> entry.mod_name,
        recipe_name |-> prototype_name \o "-" \o CleanModName(entry.mod_name) \o "-variant",
        ingredients |-> ingredients.lua,
        results |-> results.lua,
        energy_required |-> IF Truthy(Get(entry.recipe_data, "energy_required", None))
                            THEN At(entry.recipe_data, "energy_required") ELSE NotSet,
        category |-> IF Truthy(category) /\ IsStr(category)
                     THEN PyStr(StripQuotes(category.s)) ELSE NotSet,
        raised |-> IF ingredients.raised # "none" THEN ingredients.raised
                   ELSE IF results.raised # "none" THEN results.raised
                   ELSE IF Truthy(category) /\ ~IsStr(category) THEN "AttributeError"
                   ELSE "none"]

\* PatchSuggestion(...): the fields that depend on the issue, with the key the
\* patch was made for
Patch(patch_id, issue, patch_type, lua_code) ==
    [patch_id |-> patch_id, issue_ids |-> <<issue.issue_id>>, patch_type |-> patch_type,
     estimated_impact |-> issue.severity, prototype_key |-> issue.affected_prototypes[1],
     lua_code |-> lua_code]

\* _create_recipe_patch: the patch as a list of at most one element, or the
\* exception of the first variant that cannot be written
create_recipe_patch(H, issue) ==
    LET prototype_key == issue.affected_prototypes[1]
        prototype_type == parse_prototype_key(prototype_key)[1]
        prototype_name == parse_prototype_key(prototype_key)[2]
        history_key == create_prototype_key(prototype_type, prototype_name)
        modifications == H[HistIdx(H, history_key)].modifications
    IN IF FirstDot(prototype_key) = 0 THEN [patch |-> <<>>, raised |-> "ValueError"]
       ELSE IF ~HasHistory(H, history_key) THEN [patch |-> <<>>, raised |-> "none"]
       ELSE With(SelectSeq(ModRecipeDataUpTo(prototype_name, modifications, Len(modifications)),
                           LAMBDA entry : HasRecipeData(entry.recipe_data)),
                 LAMBDA valid_mod_data :
           With([k \in 1..Len(valid_mod_data) |-> Variant(prototype_name, valid_mod_data[k])],
                LAMBDA variants :
               IF variants = <<>> THEN [patch |-> <<>>, raised |-> "none"]
               ELSE IF \E k \in 1..Len(variants) : variants[k].raised # "none"
               THEN [patch |-> <<>>,
                     raised |-> variants[CHOOSE k \in 1..Len(variants) :
                                    /\ variants[k].raised # "none"
                                    /\ \A j \in 1..(k - 1) : variants[j].raised = "none"].raised]
               ELSE [patch |-> <<Patch("PATCH_" \o Upper(prototype_name)
                                           \o "_ALL_VARIANTS",
                                       issue, "recipe_variant_expansion",
                                       [prototype_name |-> prototype_name,
                                        variants |-> variants])>>,
                     raised |-> "none"]))

RECURSIVE ModTechsUpTo(_, _)
\* mod_techs of _create_research_patch after the first n records
ModTechsUpTo(mods, n) ==
    IF n = 0 THEN <<>>
    ELSE LET rest == ModTechsUpTo(mods, n - 1)
             mod_name == mods[n].mod_name
             field == mods[n].field_path
         IN IF mods[n].field_path \notin {"prerequisites", "unit", "effects"}
            THEN rest
            ELSE IF \E k \in 1..Len(rest) : rest[k].mod_name = mod_name
            THEN [k \in 1..Len(rest) |->
                     IF rest[k].mod_name = mod_name
                     THEN [rest[k] EXCEPT !.tech_data = SetItem(@, field, mods[n].new_value)]
                     ELSE rest[k]]
            ELSE Append(rest, [mod_name |-> mod_name,
                               tech_data |-> SetItem(EmptyDict, field, mods[n].new_value)])

\* what `for x in value` binds in turn, as values: the items of a list, the
\* characters of a str, the keys of a dict in insertion order
IterValues(value) ==
    CASE IsList(value) -> value.items
      [] IsStr(value) -> [i \in 1..Len(value.s) |-> PyStr(SubSeq(value.s, i, i))]
      [] IsDict(value) -> [i \in 1..Len(value.pairs) |-> PyStr(value.pairs[i][1])]

\* `for x in value` raises TypeError when the value is None, an int or a bool
NotIterable(value) == value.tag \in {"None", "int", "bool"}

\* whether writing the alternative path of one mod raises TypeError: its
\* prerequisites are iterated, and so are the ingredients of a unit that is a
\* non-empty dict holding that key
AlternativeRaises(tech_data) ==
    \/ HasKey(tech_data, "prerequisites") /\ NotIterable(At(tech_data, "prerequisites"))
    \/ /\ HasKey(tech_data, "unit")
       /\ IsDict(At(tech_data, "unit"))
       /\ HasKey(At(tech_data, "unit"), "ingredients")
       /\ NotIterable(At(At(tech_data, "unit"), "ingredients"))

\* the unit table written for a mod: count and time with their defaults, and
\* the ingredients that are lists of two elements or more, as pairs
UnitTable(unit_data) ==
    [count |-> Get(unit_data, "count", PyInt(100)),
     ingredients |->
         IF HasKey(unit_data, "ingredients")
         THEN With(SelectSeq(IterValues(At(unit_data, "ingredients")),
                             LAMBDA ingredient : IsList(ingredient) /\ Len(ingredient.items) >= 2),
                   LAMBDA pairs : [k \in 1..Len(pairs) |->
                                      <<pairs[k].items[1], pairs[k].items[2]>>])
         ELSE <<>>,
     time |-> Get(unit_data, "time", PyInt(30))]

\* the alternative research path the patch's Lua code writes for one mod
Alternative(prototype_name, entry) ==
    [mod_name |-> entry.mod_name,
     variable |-> ResearchVariableName(entry.mod_name) \o "_prereqs_available",
     technology_name |-> prototype_name \o "-" \o Lower(entry.mod_name),
     prerequisites |-> IF HasKey(entry.tech_data, "prerequisites")
                       THEN IterValues(At(entry.tech_data, "prerequisites"))
                       ELSE NotSet,
     unit |-> IF /\ HasKey(entry.tech_data, "unit")
                 /\ IsDict(At(entry.tech_data, "unit"))
                 /\ Truthy(At(entry.tech_data, "unit"))
              THEN UnitTable(At(entry.tech_data, "unit"))
              ELSE NotSet]

\* _create_research_patch: the patch as a list of at most one element, or the
\* exception it ends with
create_research_patch(H, issue) ==
    LET prototype_key == issue.affected_prototypes[1]
        prototype_type == parse_prototype_key(prototype_key)[1]
        prototype_name == parse_prototype_key(prototype_key)[2]
        history_key == create_prototype_key(prototype_type, prototype_name)
        history == H[HistIdx(H, history_key)]
        mod_techs == ModTechsUpTo(history.modifications, Len(history.modifications))
    IN IF FirstDot(prototype_key) = 0 THEN [patch |-> <<>>, raised |-> "ValueError"]
       ELSE IF ~HasHistory(H, history_key) THEN [patch |-> <<>>, raised |-> "none"]
       ELSE IF \E k \in 1..Len(mod_techs) : AlternativeRaises(mod_techs[k].tech_data)
       THEN [patch |-> <<>>, raised |-> "TypeError"]
       ELSE [patch |-> <<Patch("PATCH_" \o Upper(prototype_name)
                                   \o "_RESEARCH_COMPREHENSIVE",
                               issue, "comprehensive_research_modification",
                               [prototype_name |-> prototype_name,
                                alternatives |->
                                    [k \in 1..Len(mod_techs) |->
                                        Alternative(prototype_name, mod_techs[k])]])>>,
             raised |-> "none"]

\* _create_availability_patch
create_availability_patch(issue) == [patch |-> <<>>, raised |-> "none"]

\* _create_generic_patch
create_generic_patch(issue) ==
    LET prototype_type == parse_prototype_key(issue.affected_prototypes[1])[1]
        prototype_name == parse_prototype_key(issue.affected_prototypes[1])[2]
    IN IF FirstDot(issue.affected_prototypes[1]) = 0
       THEN [patch |-> <<>>, raised |-> "ValueError"]
       ELSE [patch |-> <<Patch("PATCH_" \o Upper(prototype_name) \o "_GENERIC", issue,
                               "generic_compatibility",
                               [prototype_name |-> prototype_name,
                                prototype_type |-> prototype_type])>>,
             raised |-> "none"]

\* the patch one of the three loops of generate_patch_suggestions asks for
CreatePatch(H, bucket, issue) ==
    IF bucket = "recipe" THEN create_recipe_patch(H, issue)
    ELSE IF bucket = "research" THEN create_research_patch(H, issue)
    ELSE IF issue.severity = "critical" THEN create_availability_patch(issue)
    ELSE create_generic_patch(issue)

RECURSIVE PatchLoopUpTo_NoSeenSet(_, _, _, _, _)
\* a patch loop that does not consult processed_prototypes
PatchLoopUpTo_NoSeenSet(H, bucket, issues, start, n) ==
    IF n = 0 THEN start
    ELSE LET before == PatchLoopUpTo_NoSeenSet(H, bucket, issues, start, n - 1)
         IN IF before.raised # "none" THEN before
            ELSE IF issues[n].affected_prototypes = <<>> THEN before
            ELSE With(CreatePatch(H, bucket, issues[n]),
                      LAMBDA made :
                          [patches |-> before.patches \o made.patch,
                           processed_prototypes |-> before.processed_prototypes,
                           raised |-> made.raised])

RECURSIVE PatchLoopUpTo(_, _, _, _, _)
\* one loop of generate_patch_suggestions after the first n issues of its
\* bucket: patches, processed_prototypes, and the exception that ended it
PatchLoopUpTo(H, bucket, issues, start, n) ==
    IF n = 0 THEN start
    ELSE LET before == PatchLoopUpTo(H, bucket, issues, start, n - 1)
             prototype_key == issues[n].affected_prototypes[1]
         IN IF before.raised # "none" THEN before
            ELSE IF issues[n].affected_prototypes = <<>> THEN before
            ELSE IF prototype_key \in before.processed_prototypes THEN before
            ELSE With(CreatePatch(H, bucket, issues[n]),
                      LAMBDA made :
                          [patches |-> before.patches \o made.patch,
                           processed_prototypes |->
                               before.processed_prototypes \cup {prototype_key},
                           raised |-> made.raised])

\* whether any(("<type>." in proto) for proto in issue.affected_prototypes)
AffectsType(issue, type_name) ==
    \E k \in 1..Len(issue.affected_prototypes) :
        ContainsTypeDot(issue.affected_prototypes[k], type_name)

\* generate_patch_suggestions
generate_patch_suggestions(H, all) ==
    LET recipe_issues ==
            sort_by_severity(SelectSeq(all, LAMBDA issue : AffectsType(issue, "recipe")))
        research_issues ==
            sort_by_severity(SelectSeq(all, LAMBDA issue :
                ~AffectsType(issue, "recipe") /\ AffectsType(issue, "technology")))
        other_issues ==
            sort_by_severity(SelectSeq(all, LAMBDA issue :
                ~AffectsType(issue, "recipe") /\ ~AffectsType(issue, "technology")))
        start == [patches |-> <<>>, processed_prototypes |-> {}, raised |-> "none"]
        recipes == PatchLoopUpTo(H, "recipe", recipe_issues, start, Len(recipe_issues))
        research ==
            PatchLoopUpTo(H, "research", research_issues, recipes, Len(research_issues))
    IN PatchLoopUpTo(H, "other", other_issues, research, Len(other_issues))

----------------------------------------------------------------------------
(* DependencyAnalyzer: construction and direct calls *)

\* DependencyAnalyzer(tracker): a new analyzer, with nothing analysed yet,
\* takes the place of the one the caller held, whose report and patches go
\* with it. __init__ ends with the extraction of the planets: when that
\* raises, the caller gets the exception and keeps what it had
Construct ==
    /\ \E extracted \in {extract_planet_resources_from_mods(prototype_histories)} :
          /\ last_call' = [op |-> "DependencyAnalyzer", raised |-> extracted.raised]
          /\ IF extracted.raised = "none"
             THEN /\ analyzer' = "constructed"
                  /\ planet_resources' = extracted.planets
                  /\ dependency_graph' = <<>>
                  /\ prototype_analyses' = <<>>
                  /\ all_issues' = <<>>
                  /\ report' = None
                  /\ patches' = <<>>
             ELSE UNCHANGED <<analyzer, planet_resources, dependency_graph,
                              prototype_analyses, all_issues, report, patches>>
    /\ UNCHANGED <<tracker_vars, hash_order>>

\* analyzer._build_dependency_graph()
BuildDependencyGraph ==
    /\ analyzer = "constructed"
    /\ LET built == build_dependency_graph(prototype_histories, dependency_graph)
       IN /\ dependency_graph' = built.graph
          /\ last_call' = [op |-> "_build_dependency_graph", raised |-> built.raised]
    /\ UNCHANGED <<tracker_vars, hash_order, analyzer, planet_resources,
                   prototype_analyses, all_issues, report, patches>>

\* analyzer._is_item_available_on_planet(item_name, planet)
IsItemAvailableOnPlanet(item_name, planet) ==
    /\ analyzer = "constructed"
    /\ last_call' = [op |-> "_is_item_available_on_planet",
                     item_name |-> item_name, planet |-> planet,
                     result |-> is_item_available_on_planet(prototype_histories,
                                    dependency_graph, planet_resources, item_name, planet, 1)]
    /\ UNCHANGED <<tracker_vars, hash_order, analyzer_vars>>

\* analyzer._is_item_widely_available(item_name)
IsItemWidelyAvailable(item_name) ==
    /\ analyzer = "constructed"
    /\ last_call' = [op |-> "_is_item_widely_available", item_name |-> item_name,
                     result |-> is_item_widely_available(prototype_histories,
                                    dependency_graph, planet_resources, item_name)]
    /\ UNCHANGED <<tracker_vars, hash_order, analyzer_vars>>

\* analyzer._analyze_availability(key, dependencies), with the dependencies
\* _analyze_prototypes passes for the key
AnalyzeAvailability(key) ==
    /\ analyzer = "constructed"
    /\ \E dependencies \in {IF key \in DOMAIN dependency_graph
                              THEN dependency_graph[key] ELSE <<>>} :
       \E result \in {analyze_availability(prototype_histories, dependency_graph,
                                             planet_resources, dependencies)} :
          last_call' = [op |-> "_analyze_availability", key |-> key,
                        dependencies |-> dependencies, raised |-> result.raised,
                        available |-> result.available,
                        unavailable |-> result.unavailable]
    /\ UNCHANGED <<tracker_vars, hash_order, analyzer_vars>>

\* analyzer.analyze_dependencies(); a step that raises leaves what the earlier
\* steps stored and returns no report
AnalyzeDependencies ==
    /\ analyzer = "constructed"
    /\ \E done \in {analyze_dependencies(prototype_histories, dependency_graph,
                                          planet_resources, prototype_analyses, all_issues)} :
          /\ dependency_graph' = done.graph
          /\ prototype_analyses' = done.analyses
          /\ all_issues' = done.issues
          /\ report' = IF done.raised = "none" THEN done.report ELSE report
          /\ last_call' = [op |-> "analyze_dependencies", raised |-> done.raised,
                           prev_issues |-> Len(all_issues)]
    /\ UNCHANGED <<tracker_vars, hash_order, analyzer, planet_resources, patches>>

\* analyzer._detect_broken_research_chains(), called on its own as the research
\* chain debugging script does after an analysis
DetectBrokenResearchChains ==
    /\ analyzer = "constructed"
    /\ \E T \in {TechDependencies(prototype_histories, dependency_graph)} :
          all_issues' = all_issues \o BrokenChainIssuesUpTo(prototype_histories, T, Len(T))
    /\ last_call' = [op |-> "_detect_broken_research_chains"]
    /\ UNCHANGED <<tracker_vars, hash_order, analyzer, planet_resources, dependency_graph,
                   prototype_analyses, report, patches>>

\* analyzer.generate_patch_suggestions(report), for the report of the last
\* completed analysis
GeneratePatchSuggestions ==
    /\ analyzer = "constructed"
    /\ report # None
    /\ \E made \in {generate_patch_suggestions(prototype_histories, all_issues)} :
          /\ patches' = IF made.raised = "none" THEN made.patches ELSE patches
          /\ last_call' = [op |-> "generate_patch_suggestions", raised |-> made.raised,
                           returned |-> IF made.raised = "none" THEN made.patches ELSE <<>>]
    /\ UNCHANGED <<tracker_vars, hash_order, analyzer, planet_resources, dependency_graph,
                   prototype_analyses, all_issues, report>>

----------------------------------------------------------------------------
(* The tracker driven through its ingestion interface *)

TrackerTypes == {T_recipe}
TrackerNames == {"r", "s"}
TrackerMods == {"base", "some-mod"}
TrackerPaths == {"data.lua"}
TrackerLines == {None, PyInt(100)}
TrackerValues ==
    { Dict(<< <<"name", PyStr("r")>> >>), EmptyDict, PyInt(0) }
TrackerFieldPaths == {"stack_size"}
TrackerOldValues == {None}

Permutations2(S) == { <<a, b>> : a \in S, b \in S } \ { <<a, a>> : a \in S }
NoOrders == <<>>

\* ModificationTracker.__init__, no analyzer being constructed yet
InitTracker ==
    /\ prototype_histories = <<>>
    /\ current_mod_context = None
    /\ data_raw_snapshot = <<>>
    /\ last_call = NoCall
    /\ analyzer = "none"
    /\ planet_resources = <<>>
    /\ dependency_graph = <<>>
    /\ prototype_analyses = <<>>
    /\ all_issues = <<>>
    /\ report = None
    /\ patches = <<>>

Init ==
    /\ InitTracker
    /\ hash_order \in DecideOrders({NoOrders}, Permutations2(TrackerMods))

Next ==
    \/ \E m \in TrackerMods, p \in TrackerPaths, l \in TrackerLines :
          set_mod_context(m, p, l)
    \/ clear_mod_context
    \/ \E t \in TrackerTypes, n \in TrackerNames, v \in TrackerValues :
          track_prototype_addition(t, n, v)
    \/ \E t \in TrackerTypes, n \in TrackerNames, f \in TrackerFieldPaths,
          o \in TrackerOldValues, v \in TrackerValues :
          track_prototype_modification(t, n, f, o, v)

Spec == Init /\ [][Next]_vars

----------------------------------------------------------------------------
(* Prototype values as the extractor hands them to the tracker *)

ObjectIngredient(name) ==
    Dict(<< <<"type", PyStr(T_item)>>, <<"name", PyStr(name)>>, <<"amount", PyInt(1)>> >>)

\* the legacy form ["item-name", amount]
PairIngredient(name) == PyList(<<PyStr(name), PyInt(1)>>)

\* a recipe with a results list
Recipe(name, ingredients, product) ==
    Dict(<< <<"type", PyStr(T_recipe)>>, <<"name", PyStr(name)>>,
            <<"ingredients", PyList(ingredients)>>,
            <<"results", PyList(<<ObjectIngredient(product)>>)>> >>)

\* a recipe with the simple `result = "item-name"` form
SimpleRecipe(name, ingredients, product) ==
    Dict(<< <<"type", PyStr(T_recipe)>>, <<"name", PyStr(name)>>,
            <<"ingredients", PyList(ingredients)>>,
            <<"result", PyStr(product)>> >>)

\* a planet whose autoplace controls name one resource, "ore"
Planet(name) ==
    Dict(<< <<"type", PyStr(T_planet)>>, <<"name", PyStr(name)>>,
            <<"map_gen_settings",
              Dict(<< <<"autoplace_controls", Dict(<< <<"ore", EmptyDict>> >>)>> >>)>> >>)

----------------------------------------------------------------------------
(* Availability: recipes over one planet, cyclic recipes included *)

N_a == "a"
N_b == "b"
N_ore == "ore"
N_p == "p"

\* a resource with an autoplace specification: it is put on nauvis
Resource(name) ==
    Dict(<< <<"type", PyStr(T_resource)>>, <<"name", PyStr(name)>>,
            <<"autoplace", Dict(<< <<"richness", PyInt(1)>> >>)>> >>)

AvailAdditions ==
    { <<T_planet, N_p, Planet(N_p)>>,
      <<T_resource, N_b, Resource(N_b)>>,
      <<T_recipe, N_a, Recipe(N_a, <<ObjectIngredient(N_b)>>, N_a)>>,
      <<T_recipe, N_a, Recipe(N_a, <<PairIngredient(N_ore)>>, N_a)>>,
      <<T_recipe, N_a, Recipe(N_a, <<ObjectIngredient(N_b)>>, N_ore)>>,
      <<T_recipe, N_b, SimpleRecipe(N_b, <<ObjectIngredient(N_a)>>, N_b)>>,
      <<T_recipe, N_b, SimpleRecipe(N_b, <<ObjectIngredient(N_ore)>>, N_b)>>,
      <<T_recipe, N_b, SetItem(SimpleRecipe(N_b, <<ObjectIngredient(N_ore)>>, N_b),
                              "category", PyStr("smelting"))>>,
      \* a second way to make a, from nothing
      <<T_recipe, N_b, Recipe(N_b, <<>>, N_a)>>,
      \* a planet whose map_gen_settings field is null
      <<T_planet, N_p, SetItem(Planet(N_p), "map_gen_settings", None)>>,
      \* a planet whose autoplace controls are a list of names
      <<T_planet, N_p,
        SetItem(Planet(N_p), "map_gen_settings",
                Dict(<< <<"autoplace_controls", PyList(<<PyStr(N_ore)>>)>> >>))>> }
AvailItems == {N_a, N_b, N_ore}
AvailPlanets == {N_p, Nauvis}

InitAvail ==
    /\ InitTracker
    /\ hash_order = NoOrders

NextAvail ==
    \/ set_mod_context("base", "data.lua", None)
    \/ \E a \in AvailAdditions : track_prototype_addition(a[1], a[2], a[3])
    \/ Construct
    \/ BuildDependencyGraph
    \/ \E i \in AvailItems, pl \in AvailPlanets : IsItemAvailableOnPlanet(i, pl)
    \/ \E k \in 1..Len(prototype_histories) : AnalyzeAvailability(prototype_histories[k].key)

SpecAvail == InitAvail /\ [][NextAvail]_vars

----------------------------------------------------------------------------
(* The pipeline: the tracker's ingestion interface called for the base game
   and two mods, in any order and with or without a context, and an analyzer
   constructed on it, run and asked for patches at any moment in between *)

\* an analyzer is run again while it holds fewer issues than this
MaxIssues == 1

N_r == "r"
N_t == "t"
N_u == "u"
N_i == "i"
N_iron == "iron"
N_wood == "wood"
N_steel == "steel"

Ingredients(names) == PyList([k \in 1..Len(names) |-> ObjectIngredient(names[k])])

Technology(name, prerequisites) ==
    Dict(<< <<"type", PyStr(T_technology)>>, <<"name", PyStr(name)>>,
            <<"prerequisites",
              PyList([k \in 1..Len(prerequisites) |-> PyStr(prerequisites[k])])>> >>)

\* an item that burns as chemical fuel
Item(name) ==
    Dict(<< <<"type", PyStr(T_item)>>, <<"name", PyStr(name)>>,
            <<"fuel_category", PyStr("chemical")>> >>)

\* the mods whose files call the tracker
PipelineMods == {"base", "A", "B"}

\* the prototypes the data stage of each mod adds
PipelineAdditions(mod_name) ==
    CASE mod_name = "base" ->
             { <<T_recipe, N_r, Recipe(N_r, <<ObjectIngredient(N_iron)>>, N_r)>>,
               <<T_technology, N_t, Technology(N_t, <<N_u, N_a>>)>>,
               <<T_item, N_i, Item(N_i)>>,
               <<T_planet, N_p, Planet(N_p)>> }
      [] mod_name = "A" ->
             { <<T_item, N_i, Item(N_i)>>,
               \* r replaced as a whole: made from item i, by smelting
               <<T_recipe, N_r, SetItem(Recipe(N_r, <<ObjectIngredient(N_i)>>, N_r),
                                       "category", PyStr("smelting"))>> }
      [] mod_name = "B" -> { <<T_technology, N_t, Technology(N_t, <<>>)>> }

\* the fields the data stage of each mod changes in place
PipelineModifications(mod_name) ==
    CASE mod_name = "base" -> {}
      [] mod_name = "A" ->
             { <<T_recipe, N_r, "ingredients", Ingredients(<<N_iron>>),
                 Ingredients(<<N_iron, N_wood>>)>>,
               <<T_technology, N_t, "prerequisites", None, PyList(<<PyStr(N_r)>>)>> }
      [] mod_name = "B" ->
             { <<T_recipe, N_r, "ingredients", Ingredients(<<N_iron>>),
                 Ingredients(<<N_iron, N_steel>>)>> }

\* the mod whose data stage is running
Reading(mod_name) == current_mod_context # None /\ current_mod_context.mod_name = mod_name

InitPipeline ==
    /\ InitTracker
    /\ hash_order = NoOrders

\* the fourth disjunct is a call made outside every context, which the
\* tracker drops
NextPipeline ==
    \/ \E m \in PipelineMods : set_mod_context(m, "data.lua", None)
    \/ clear_mod_context
    \/ \E m \in PipelineMods : \E a \in PipelineAdditions(m) :
          Reading(m) /\ track_prototype_addition(a[1], a[2], a[3])
    \/ /\ current_mod_context = None
       /\ \E a \in PipelineAdditions("base") : track_prototype_addition(a[1], a[2], a[3])
    \/ \E m \in PipelineMods : \E c \in PipelineModifications(m) :
          Reading(m) /\ track_prototype_modification(c[1], c[2], c[3], c[4], c[5])
    \/ Construct
    \/ Len(all_issues) < MaxIssues /\ AnalyzeDependencies
    \/ GeneratePatchSuggestions

SpecPipeline == InitPipeline /\ [][NextPipeline]_vars

----------------------------------------------------------------------------
(* An essential recipe: the inserter's ingredients changed by two mods *)

N_inserter == "inserter"

\* the ingredient lists A and B give the inserter, in object form and in the
\* legacy pair form; ore is on the one planet, iron on none
EssentialIngredients ==
    { Ingredients(<<N_ore>>), Ingredients(<<N_iron>>),
      PyList(<<PairIngredient(N_ore)>>), PyList(<<PairIngredient(N_iron)>>) }

NextEssential ==
    \/ \E m \in PipelineMods : set_mod_context(m, "data.lua", None)
    \/ clear_mod_context
    \/ Reading("base") /\ track_prototype_addition(T_planet, N_p, Planet(N_p))
    \/ \E m \in {"A", "B"}, v \in EssentialIngredients :
          Reading(m) /\ track_prototype_modification(T_recipe, N_inserter, "ingredients",
                                                     None, v)
    \/ Construct
    \/ Len(all_issues) < MaxIssues /\ AnalyzeDependencies

SpecEssential == InitPipeline /\ [][NextEssential]_vars

----------------------------------------------------------------------------
(* ModHarmonizer.analyze_conflicts: the base game, then each mod of the list,
   then analysis and patches; the call can be made again *)

\* the mods the directory can hold
HarmonizerMods == {"base", "A"}

\* the lists analyze_conflicts works through: the mods it is given, or those
\* discover_mods() finds, in the order the directory lists them
HarmonizerModLists ==
    {<<>>} \cup { <<a>> : a \in HarmonizerMods }
           \cup { pair \in HarmonizerMods \X HarmonizerMods : pair[1] # pair[2] }

\* str(mod.path): a mod is a directory or an archive of the mods directory
HarmonizerPaths(mod_name) == {"mods/" \o mod_name, "mods/" \o mod_name \o "_1.0.0.zip"}

\* prototypes in the shapes _extract_prototypes_from_lua gives them when it
\* reads the files of a mod: a table of data:extend without nested tables
\* (_parse_lua_table keeps its flat fields), a property assigned through a
\* local variable (kept under 'modifications'), and an ingredients table
\* assigned to a property of such a variable
HarmonizerPrototypes(mod_name) ==
    { <<T_item, N_i,
        Dict(<< <<"type", PyStr(T_item)>>, <<"name", PyStr(N_i)>>,
                <<"stack_size", PyInt(10)>> >>)>>,
      <<T_recipe, N_r,
        Dict(<< <<"type", PyStr(T_recipe)>>, <<"name", PyStr(N_r)>>,
                <<"category", PyStr("smelting")>> >>)>>,
      <<T_recipe, N_r,
        Dict(<< <<"type", PyStr(T_recipe)>>, <<"name", PyStr(N_r)>>,
                <<"modifications", Dict(<< <<"enabled", PyStr("false")>> >>)>>,
                <<"modified_by", PyStr(mod_name)>> >>)>>,
      <<T_recipe, N_r,
        Dict(<< <<"type", PyStr(T_recipe)>>, <<"name", PyStr(N_r)>>,
                <<"ingredients", Ingredients(<<N_iron, N_wood>>)>>,
                <<"modified_by", PyStr(mod_name)>> >>)>> }

\* the list the running call of analyze_conflicts works through, and the
\* position in it the call has reached: 0 while _simulate_base_game runs
HarmonizerList == last_call.mods
HarmonizerAt == last_call.index

\* no call of analyze_conflicts is running: none was made, the last one
\* returned its patches, or it ended with an exception
HarmonizerIdle ==
    \/ last_call.op \in {NoCall.op, "generate_patch_suggestions"}
    \/ last_call.op \in {"DependencyAnalyzer", "analyze_dependencies"}
           /\ last_call.raised # "none"

\* analyze_conflicts(mods) is entered
AnalyzeConflicts(mods) ==
    /\ HarmonizerIdle
    /\ last_call' = [op |-> "analyze_conflicts", mods |-> mods, index |-> 0]
    /\ UNCHANGED <<tracker_vars, hash_order, analyzer_vars>>

\* one call of tracker.track_prototype_addition made by _parse_real_mod_files
\* for a prototype extracted from the files of the given mod
ParseRealModFiles(mod_name, prototype) ==
    /\ TotalRecords(prototype_histories) < MaxRecords
    /\ prototype_histories' = AdditionHistories(prototype_histories, current_mod_context,
                                  prototype[1], prototype[2], prototype[3])
    /\ data_raw_snapshot' = AdditionSnapshot(data_raw_snapshot, current_mod_context,
                                  prototype[1], prototype[2], prototype[3])
    /\ last_call' = [op |-> "track_prototype_addition", mods |-> HarmonizerList,
                     index |-> HarmonizerAt, parsing |-> mod_name,
                     key |-> create_prototype_key(prototype[1], prototype[2]),
                     context |-> current_mod_context,
                     stored |-> HasHistory(AdditionHistories(prototype_histories,
                                    current_mod_context, prototype[1], prototype[2],
                                    prototype[3]),
                                    create_prototype_key(prototype[1], prototype[2]))]
    /\ hash_order' \in OrdersFor(prototype_histories')
    /\ UNCHANGED <<current_mod_context, analyzer_vars>>

\* _simulate_base_game: the base mod's files are parsed as they are found
SimulateBaseGame ==
    /\ last_call.op \in {"analyze_conflicts", "track_prototype_addition"}
    /\ HarmonizerAt = 0
    /\ \E prototype \in HarmonizerPrototypes("base") : ParseRealModFiles("base", prototype)

\* _simulate_mod_loading, first line: tracker.set_mod_context(mod.name,
\* str(mod.path)), for the next mod of the list
BeginModLoading ==
    /\ \/ last_call.op \in {"analyze_conflicts", "track_prototype_addition"} /\ HarmonizerAt = 0
       \/ last_call.op = "clear_mod_context"
    /\ HarmonizerAt < Len(HarmonizerList)
    /\ \E file_path \in HarmonizerPaths(HarmonizerList[HarmonizerAt + 1]) :
          current_mod_context' = [tag |-> "context",
                                  mod_name |-> HarmonizerList[HarmonizerAt + 1],
                                  file_path |-> file_path, line_number |-> None]
    /\ last_call' = [op |-> "set_mod_context", mods |-> HarmonizerList,
                     index |-> HarmonizerAt + 1]
    /\ UNCHANGED <<prototype_histories, data_raw_snapshot, hash_order, analyzer_vars>>

\* _simulate_mod_loading, middle: the mod's files are parsed
SimulateModLoading ==
    /\ last_call.op \in {"set_mod_context", "track_prototype_addition"}
    /\ HarmonizerAt >= 1
    /\ \E prototype \in HarmonizerPrototypes(HarmonizerList[HarmonizerAt]) :
          ParseRealModFiles(HarmonizerList[HarmonizerAt], prototype)

\* _simulate_mod_loading, last line: tracker.clear_mod_context()
EndModLoading ==
    /\ last_call.op \in {"set_mod_context", "track_prototype_addition"}
    /\ HarmonizerAt >= 1
    /\ current_mod_context' = None
    /\ last_call' = [op |-> "clear_mod_context", mods |-> HarmonizerList,
                     index |-> HarmonizerAt]
    /\ UNCHANGED <<prototype_histories, data_raw_snapshot, hash_order, analyzer_vars>>

\* the loop over the mods has ended
HarmonizerLoaded ==
    /\ \/ last_call.op \in {"analyze_conflicts", "track_prototype_addition"} /\ HarmonizerAt = 0
       \/ last_call.op = "clear_mod_context"
    /\ HarmonizerAt = Len(HarmonizerList)

NextHarmonizer ==
    \/ \E mods \in HarmonizerModLists : AnalyzeConflicts(mods)
    \/ SimulateBaseGame
    \/ BeginModLoading
    \/ SimulateModLoading
    \/ EndModLoading
    \/ HarmonizerLoaded /\ Construct
    \/ /\ last_call.op = "DependencyAnalyzer"
       /\ last_call.raised = "none"
       /\ AnalyzeDependencies
    \/ /\ last_call.op = "analyze_dependencies"
       /\ last_call.raised = "none"
       /\ GeneratePatchSuggestions

SpecHarmonizer == InitPipeline /\ [][NextHarmonizer]_vars

----------------------------------------------------------------------------
(* Research: technologies over defined, undefined and cyclic prerequisites *)

\* technologies t, u and a in the shapes the research pass tells apart; no
\* technology b is ever defined
ResearchAdditions ==
    { <<T_technology, N_t, Technology(N_t, <<N_u>>)>>,
      <<T_technology, N_t, Technology(N_t, <<N_u, N_b>>)>>,
      <<T_technology, N_t, Technology(N_t, <<N_b, N_a>>)>>,
      <<T_technology, N_u, Technology(N_u, <<>>)>>,
      <<T_technology, N_u, Technology(N_u, <<N_t>>)>>,
      <<T_technology, N_u, Technology(N_u, <<N_a>>)>>,
      <<T_technology, N_a, Technology(N_a, <<N_b>>)>>,
      <<T_technology, N_a, Technology(N_a, <<N_u>>)>>,
      <<T_technology, N_a, Technology(N_a, <<>>)>>,
      \* a technology whose prerequisites field is null
      <<T_technology, N_a, SetItem(Technology(N_a, <<>>), "prerequisites", None)>>,
      \* a technology whose prerequisites field is the string 'ub'
      <<T_technology, N_a, SetItem(Technology(N_a, <<>>), "prerequisites", PyStr("ub"))>>,
      \* a technology whose prerequisites field is a map keyed by b and u
      <<T_technology, N_a,
        SetItem(Technology(N_a, <<>>), "prerequisites",
                Dict(<< <<N_b, PyInt(1)>>, <<N_u, PyInt(2)>> >>))>>,
      \* a recipe that shares its name with technology t
      <<T_recipe, N_t, Recipe(N_t, <<ObjectIngredient(N_b)>>, N_t)>> }

\* an analyzer of technologies is run again while it holds fewer issues than
\* this: a first run that found a missing prerequisite is followed by a second
MaxResearchIssues == 3

InitResearch ==
    /\ InitTracker
    /\ hash_order = NoOrders

NextResearch ==
    \/ set_mod_context("base", "data.lua", None)
    \/ \E a \in ResearchAdditions : track_prototype_addition(a[1], a[2], a[3])
    \/ Construct
    \/ Len(all_issues) < MaxResearchIssues /\ AnalyzeDependencies
    \/ Len(all_issues) < MaxResearchIssues /\ DetectBrokenResearchChains

SpecResearch == InitResearch /\ [][NextResearch]_vars

----------------------------------------------------------------------------
(* Planets: an analyzer built on a tracker that has read up to four planets *)

MaxPlanets == 4

\* a planet whose autoplace controls name the given resource
PlanetWith(name, resource) ==
    Dict(<< <<"type", PyStr(T_planet)>>, <<"name", PyStr(name)>>,
            <<"map_gen_settings",
              Dict(<< <<"autoplace_controls", Dict(<< <<resource, EmptyDict>> >>)>> >>)>> >>)

\* the names the planets are given, in the order they are read
PlanetNames == <<N_p, N_t, N_u, N_r, Nauvis>>

RECURSIVE PlanetHistories(_, _)
\* the histories after base has added one planet per entry of the list, the
\* k-th with the k-th resource, through track_prototype_addition
PlanetHistories(resources, n) ==
    IF n = 0 THEN <<>>
    ELSE AdditionHistories(PlanetHistories(resources, n - 1),
             [tag |-> "context", mod_name |-> "base", file_path |-> "data.lua",
              line_number |-> None],
             T_planet, PlanetNames[n], PlanetWith(PlanetNames[n], resources[n]))

RECURSIVE PlanetSnapshot(_, _)
\* data_raw_snapshot after the same additions
PlanetSnapshot(resources, n) ==
    IF n = 0 THEN <<>>
    ELSE AdditionSnapshot(PlanetSnapshot(resources, n - 1),
             [tag |-> "context", mod_name |-> "base", file_path |-> "data.lua",
              line_number |-> None],
             T_planet, PlanetNames[n], PlanetWith(PlanetNames[n], resources[n]))

PlanetItems == {N_ore, N_wood, N_iron}

\* the tracker after base's data stage, its context cleared, before an
\* analyzer is constructed
InitPlanets ==
    /\ \E n \in 0..MaxPlanets : \E resources \in [1..n -> {"ore", "wood"}] :
          /\ prototype_histories = PlanetHistories(resources, n)
          /\ data_raw_snapshot = PlanetSnapshot(resources, n)
    /\ current_mod_context = None
    /\ hash_order = NoOrders
    /\ last_call = NoCall
    /\ analyzer = "none"
    /\ planet_resources = <<>>
    /\ dependency_graph = <<>>
    /\ prototype_analyses = <<>>
    /\ all_issues = <<>>
    /\ report = None
    /\ patches = <<>>

NextPlanets ==
    \/ Construct
    \/ \E i \in PlanetItems : IsItemWidelyAvailable(i)

SpecPlanets == InitPlanets /\ [][NextPlanets]_vars

----------------------------------------------------------------------------
(* Keys: the two key functions applied to kinds and names of a few characters *)

MaxKeyLen == 3

RECURSIVE NamesOfLen(_)
\* the names of n characters, each a letter or a separator
NamesOfLen(n) ==
    IF n = 0 THEN {""} ELSE { name \o c : name \in NamesOfLen(n - 1), c \in {"a", Dot} }

\* names of up to MaxKeyLen characters, separators among them
KeyInputNames == UNION { NamesOfLen(n) : n \in 0..MaxKeyLen }

\* kinds: two ordinary ones, the empty string, and one holding a separator
KeyInputKinds == {T_recipe, T_item, "", "a.b"}

\* key = create_prototype_key(prototype_type, prototype_name)
CreatePrototypeKey(prototype_type, prototype_name) ==
    /\ last_call' = [op |-> "create_prototype_key", prototype_type |-> prototype_type,
                     prototype_name |-> prototype_name,
                     key |-> create_prototype_key(prototype_type, prototype_name)]
    /\ UNCHANGED <<tracker_vars, hash_order, analyzer_vars>>

\* parse_prototype_key(key), for the key just created
ParsePrototypeKey ==
    /\ last_call.op = "create_prototype_key"
    /\ last_call' = [op |-> "parse_prototype_key", prototype_type |-> last_call.prototype_type,
                     prototype_name |-> last_call.prototype_name, key |-> last_call.key,
                     raised |-> IF FirstDot(last_call.key) = 0 THEN "ValueError" ELSE "none",
                     parsed |-> IF FirstDot(last_call.key) = 0 THEN <<>>
                                ELSE parse_prototype_key(last_call.key)]
    /\ UNCHANGED <<tracker_vars, hash_order, analyzer_vars>>

InitKeys ==
    /\ InitTracker
    /\ hash_order = NoOrders

NextKeys ==
    \/ \E t \in KeyInputKinds, n \in KeyInputNames : CreatePrototypeKey(t, n)
    \/ ParsePrototypeKey

SpecKeys == InitKeys /\ [][NextKeys]_vars

----------------------------------------------------------------------------
(* Claims about the tracker *)

IsPrefix(s, t) == Len(s) <= Len(t) /\ \A i \in 1..Len(s) : s[i] = t[i]

TrackingOps == {"track_prototype_addition", "track_prototype_modification"}

\* the packages that authored the records of a history
Authors(h) == { h.modifications[k].mod_name : k \in 1..Len(h.modifications) }

LastRecord(h) == h.modifications[Len(h.modifications)]

\* C1: every stored history has at least one record, and its current_value is
\* the new_value of its last record
C1_LastWriterWins ==
    \A i \in 1..Len(prototype_histories) :
        LET h == prototype_histories[i]
        IN /\ Len(h.modifications) > 0
           /\ h.current_value = LastRecord(h).new_value

\* a history of three records whose latest, a field-level modify, changed the value
C1_Witness ==
    \E i \in 1..Len(prototype_histories) :
        LET h == prototype_histories[i]
        IN /\ Len(h.modifications) = 3
           /\ LastRecord(h).operation = "modify"
           /\ h.modifications[2].new_value # LastRecord(h).new_value
           /\ h.modifications[1].new_value # LastRecord(h).new_value
           /\ h.current_value = LastRecord(h).new_value

\* C2: get_conflicts lists a key iff its records have two or more distinct
\* authors, with exactly those authors, and lists no key twice
C2_ConflictMembership ==
    LET H == prototype_histories
        C == get_conflicts(H)
    IN /\ \A i \in 1..Len(H) :
              (Cardinality(Authors(H[i])) >= 2) <=> (\E j \in 1..Len(C) : C[j].key = H[i].key)
       /\ \A j \in 1..Len(C) :
              \E i \in 1..Len(H) :
                 /\ H[i].key = C[j].key
                 /\ { C[j].mods[k] : k \in 1..Len(C[j].mods) } = Authors(H[i])
                 /\ Len(C[j].mods) = Cardinality(Authors(H[i]))
       /\ \A j1, j2 \in 1..Len(C) : C[j1].key = C[j2].key => j1 = j2

\* one key written by two packages and listed, another written twice by one
\* package and not listed
C2_Witness ==
    LET H == prototype_histories
        C == get_conflicts(H)
    IN /\ Len(C) = 1
       /\ Len(C[1].mods) = 2
       /\ \E i \in 1..Len(H) :
             /\ Len(H[i].modifications) >= 1
             /\ Cardinality(Authors(H[i])) = 1
             /\ H[i].key # C[1].key

\* C3: a tracking call made with no active context changes neither the
\* histories nor the snapshot
C3_NoContextNoEffect ==
    [][ (last_call'.op \in TrackingOps /\ ~last_call'.had_context)
          => UNCHANGED <<prototype_histories, data_raw_snapshot>> ]_vars

\* a modification attempted after the context was cleared, records being held
C3_Witness ==
    /\ last_call.op = "track_prototype_modification"
    /\ ~last_call.had_context
    /\ current_mod_context = None
    /\ Len(prototype_histories) > 0

\* C4: an addition under a context appends one record, "create" with old_value
\* None for a new key, else "overwrite" whose old_value is the value the key
\* had before the call
C4_AdditionRecord ==
    (last_call.op = "track_prototype_addition" /\ last_call.had_context) =>
        LET i == HistIdx(prototype_histories, last_call.key)
            h == prototype_histories[i]
        IN /\ i # 0
           /\ Len(h.modifications) = last_call.prev_len + 1
           /\ LastRecord(h).operation = (IF last_call.had_history THEN "overwrite" ELSE "create")
           /\ LastRecord(h).old_value = (IF last_call.had_history THEN last_call.prev_current ELSE None)

\* C5: a modification under a context appends one "modify" record, creating the
\* history when the key has none; "create" is only ever the first record of a
\* history, so a key first seen through a modification never gets one
C5_ModifyAlwaysAppends ==
    /\ (last_call.op = "track_prototype_modification" /\ last_call.had_context) =>
          LET i == HistIdx(prototype_histories, last_call.key)
              h == prototype_histories[i]
          IN /\ i # 0
             /\ Len(h.modifications) = last_call.prev_len + 1
             /\ LastRecord(h).operation = "modify"
    /\ \A i \in 1..Len(prototype_histories) :
          LET h == prototype_histories[i]
          IN /\ \A k \in 2..Len(h.modifications) : h.modifications[k].operation # "create"
             /\ h.modifications[1].operation = "modify" =>
                   \A k \in 1..Len(h.modifications) :
                       h.modifications[k].operation \in {"modify", "overwrite"}

\* a key first seen through a modification and then added: modify, overwrite
C5_Witness ==
    /\ last_call.op = "track_prototype_addition"
    /\ last_call.had_context
    /\ \E i \in 1..Len(prototype_histories) :
          LET h == prototype_histories[i]
          IN /\ h.key = last_call.key
             /\ Len(h.modifications) = 2
             /\ h.modifications[1].operation = "modify"
             /\ h.modifications[2].operation = "overwrite"

\* C6: every step keeps every history, in place, its record list extended at
\* most at the end; only the key the call targets changes or appears
C6_AppendOnly ==
    [][ LET H == prototype_histories
            G == prototype_histories'
        IN /\ Len(G) >= Len(H)
           /\ \A i \in 1..Len(H) :
                 /\ G[i].key = H[i].key
                 /\ IsPrefix(H[i].modifications, G[i].modifications)
                 /\ (last_call'.op \notin TrackingOps \/ H[i].key # last_call'.key) => G[i] = H[i]
           /\ \A i \in (Len(H) + 1)..Len(G) :
                 last_call'.op \in TrackingOps /\ G[i].key = last_call'.key ]_vars

\* two keys are held and the targeted one has just received its second record
C6_Witness ==
    /\ last_call.op \in TrackingOps
    /\ Len(prototype_histories) = 2
    /\ \E i \in 1..Len(prototype_histories) :
          /\ prototype_histories[i].key = last_call.key
          /\ Len(prototype_histories[i].modifications) = 2

----------------------------------------------------------------------------
(* Claims about availability *)

CurrentValue(H, key) == H[HistIdx(H, key)].current_value

\* the current value of the recipe lists the item among its ingredients
Requires(recipe_data, item_name) ==
    /\ IsDict(recipe_data)
    /\ HasKey(recipe_data, "ingredients")
    /\ IsList(At(recipe_data, "ingredients"))
    /\ \E i \in 1..Len(At(recipe_data, "ingredients").items) :
          LET ing == At(recipe_data, "ingredients").items[i]
          IN \/ IsDict(ing) /\ Get(ing, "name", None) = PyStr(item_name)
             \/ IsList(ing) /\ Len(ing.items) >= 2 /\ ing.items[1] = PyStr(item_name)

\* the current value of the recipe lists the item as its product
Yields(recipe_data, item_name) ==
    /\ IsDict(recipe_data)
    /\ \/ HasKey(recipe_data, "result") /\ At(recipe_data, "result") = PyStr(item_name)
       \/ /\ HasKey(recipe_data, "results") /\ IsList(At(recipe_data, "results"))
          /\ \E i \in 1..Len(At(recipe_data, "results").items) :
                Get(At(recipe_data, "results").items[i], "name", None) = PyStr(item_name)

\* recipe x makes x from y and recipe y makes y from x, neither being a base
\* resource of the planet, on an analyzer whose graph holds both recipes' edges
CyclicPair(x, y, planet) ==
    LET H == prototype_histories
        kx == create_prototype_key(T_recipe, x)
        ky == create_prototype_key(T_recipe, y)
    IN /\ analyzer = "constructed"
       /\ PlanetIdx(planet_resources, planet) # 0
       /\ x \notin PlanetResources(planet_resources, planet)
       /\ y \notin PlanetResources(planet_resources, planet)
       /\ HasHistory(H, kx) /\ HasHistory(H, ky)
       /\ Requires(CurrentValue(H, kx), y) /\ Yields(CurrentValue(H, kx), x)
       /\ Requires(CurrentValue(H, ky), x) /\ Yields(CurrentValue(H, ky), y)
       /\ kx \in DOMAIN dependency_graph /\ ky \in DOMAIN dependency_graph
       /\ dependency_graph[kx] = ExtractDependencies(H[HistIdx(H, kx)])
       /\ dependency_graph[ky] = ExtractDependencies(H[HistIdx(H, ky)])

\* C7: on two recipes that require each other's product, neither a base
\* resource, _is_item_available_on_planet returns False for either item
C7_CycleReturnsFalse ==
    (/\ last_call.op = "_is_item_available_on_planet"
     /\ \/ last_call.item_name = N_a /\ CyclicPair(N_a, N_b, last_call.planet)
        \/ last_call.item_name = N_b /\ CyclicPair(N_b, N_a, last_call.planet))
    => last_call.result = "False"

----------------------------------------------------------------------------
(* Claims about the pipeline *)

Key_r == create_prototype_key(T_recipe, N_r)

SetOf(seq) == { seq[k] : k \in 1..Len(seq) }

\* base created recipe r with iron only, then A changed its ingredients to
\* [iron, wood] and B changed them to [iron, steel]
E2EScenario ==
    /\ HasHistory(prototype_histories, Key_r)
    /\ LET mods == prototype_histories[HistIdx(prototype_histories, Key_r)].modifications
       IN /\ Len(mods) = 3
          /\ mods[1].operation = "create" /\ mods[1].mod_name = "base"
          /\ mods[1].new_value = Recipe(N_r, <<ObjectIngredient(N_iron)>>, N_r)
          /\ mods[2].operation = "modify" /\ mods[2].mod_name = "A"
          /\ mods[2].field_path = "ingredients"
          /\ mods[2].new_value = Ingredients(<<N_iron, N_wood>>)
          /\ mods[3].operation = "modify" /\ mods[3].mod_name = "B"
          /\ mods[3].field_path = "ingredients"
          /\ mods[3].new_value = Ingredients(<<N_iron, N_steel>>)

\* what the scenario leaves once analysis has run: get_conflicts reports
\* recipe.r with exactly the given packages, and the multi-package
\* recipe-conflict pass has emitted an issue for recipe.r naming exactly them
E2EConflictsName(packages) ==
    /\ \E k \in 1..Len(get_conflicts(prototype_histories)) :
          /\ get_conflicts(prototype_histories)[k].key = Key_r
          /\ SetOf(get_conflicts(prototype_histories)[k].mods) = packages
    /\ \E i \in 1..Len(all_issues) :
          /\ all_issues[i].issue_id = "MOD_RECIPE_CONFLICT_R"
          /\ all_issues[i].affected_prototypes = <<Key_r>>
          /\ SetOf(all_issues[i].conflicting_mods) = packages

\* C8: in the end-to-end scenario get_conflicts reports recipe.r with the
\* package set exactly {A, B}, and the multi-package recipe-conflict pass
\* emits an issue for recipe.r whose conflicting_mods is exactly {A, B}
C8_E2EConflictSide_AsStated ==
    (E2EScenario /\ last_call.op = "analyze_dependencies" /\ last_call.raised = "none")
        => E2EConflictsName({"A", "B"})

\* the Lua table that lists one unit of each named item
LuaTable(names) ==
    [form |-> "table",
     items |-> [k \in 1..Len(names) |-> LuaItem(PyStr(T_item), PyStr(names[k]), PyInt(1))]]

\* the patches returned for recipe.r
PatchesFor_r == SelectSeq(last_call.returned, LAMBDA patch : patch.prototype_key = Key_r)

\* the variants a recipe patch defines: package and ingredient table
VariantsOf(patch) ==
    [k \in 1..Len(patch.lua_code.variants) |->
        <<patch.lua_code.variants[k].mod_name, patch.lua_code.variants[k].ingredients>>]

\* patches have been generated in the scenario from a report of an analysis
\* that saw both packages
E2EPatched ==
    /\ E2EScenario
    /\ last_call.op = "generate_patch_suggestions"
    /\ \E i \in 1..Len(all_issues) :
          /\ all_issues[i].affected_prototypes = <<Key_r>>
          /\ {"A", "B"} \subseteq SetOf(all_issues[i].conflicting_mods)

\* C9: in the end-to-end scenario generate_patch_suggestions returns exactly
\* one patch for recipe.r, and it defines exactly two variants, one for A and
\* one for B, each carrying that package's ingredient list
C9_E2EPatchSide_AsStated ==
    E2EPatched =>
        /\ Len(PatchesFor_r) = 1
        /\ Len(VariantsOf(PatchesFor_r[1])) = 2
        /\ SetOf(VariantsOf(PatchesFor_r[1])) =
               { <<"A", LuaTable(<<N_iron, N_wood>>)>>, <<"B", LuaTable(<<N_iron, N_steel>>)>> }

\* the place of an issue's bucket in the order the buckets are processed
BucketRank(issue) ==
    IF AffectsType(issue, "recipe") THEN 0
    ELSE IF AffectsType(issue, "technology") THEN 1 ELSE 2

SeverityRank(severity) ==
    CASE severity = "critical" -> 0 [] severity = "high" -> 1 [] severity = "medium" -> 2
      [] severity = "low" -> 3 [] severity = "info" -> 4 [] OTHER -> 5

\* issue i is reached before issue j: bucket order, then descending severity,
\* then the order of the report
ReachedBefore(I, i, j) ==
    \/ BucketRank(I[i]) < BucketRank(I[j])
    \/ /\ BucketRank(I[i]) = BucketRank(I[j])
       /\ \/ SeverityRank(I[i].severity) < SeverityRank(I[j].severity)
          \/ SeverityRank(I[i].severity) = SeverityRank(I[j].severity) /\ i < j

\* C10: generate_patch_suggestions returns at most one patch per prototype
\* key, and each patch returned was made for the first issue naming its key,
\* in bucket order and then descending severity
C10_OnePatchPerKey ==
    last_call.op = "generate_patch_suggestions" =>
        /\ \A a, b \in 1..Len(last_call.returned) :
              a # b => last_call.returned[a].prototype_key # last_call.returned[b].prototype_key
        /\ \A a \in 1..Len(last_call.returned) :
              \E i \in 1..Len(all_issues) :
                 /\ all_issues[i].affected_prototypes[1] = last_call.returned[a].prototype_key
                 /\ last_call.returned[a].issue_ids = <<all_issues[i].issue_id>>
                 /\ last_call.returned[a].estimated_impact = all_issues[i].severity
                 /\ \A j \in 1..Len(all_issues) :
                       (j # i /\ all_issues[j].affected_prototypes = all_issues[i].affected_prototypes)
                           => ReachedBefore(all_issues, i, j)

\* two patches returned, one of them for a key that several issues name
C10_Witness ==
    /\ last_call.op = "generate_patch_suggestions"
    /\ Len(last_call.returned) >= 2
    /\ \E a \in 1..Len(last_call.returned) :
          Cardinality({ i \in 1..Len(all_issues) :
                          all_issues[i].affected_prototypes[1]
                              = last_call.returned[a].prototype_key }) >= 2

----------------------------------------------------------------------------
(* Claims about the detector passes *)

\* the issues the last analysis run appended
RunIssues == SubSeq(all_issues, last_call.prev_issues + 1, Len(all_issues))

Analyzed == last_call.op = "analyze_dependencies" /\ last_call.raised = "none"

\* the technologies the tracker holds, by name
TechNames ==
    { parse_prototype_key(prototype_histories[k].key)[2] :
        k \in { j \in 1..Len(prototype_histories) :
                   parse_prototype_key(prototype_histories[j].key)[1] = T_technology } }

\* the prerequisites a technology's current value names, in order: the items
\* of a list, and what a string or a map held in the list's place names when
\* it is read one member at a time
PrereqsOf(tech_name) ==
    LET data == CurrentValue(prototype_histories, create_prototype_key(T_technology, tech_name))
    IN IF IsDict(data) /\ HasKey(data, "prerequisites")
             /\ At(data, "prerequisites").tag \in {"list", "str", "dict"}
       THEN IterNames(At(data, "prerequisites"))
       ELSE <<>>

RECURSIVE LeastFixedPoint(_)
\* the least set that holds every technology all of whose prerequisites it holds
LeastFixedPoint(S) ==
    LET grown == S \cup { x \in TechNames : SetOf(PrereqsOf(x)) \subseteq S }
    IN IF grown = S THEN S ELSE LeastFixedPoint(grown)

UndefinedPrereqs(tech_name) ==
    SelectSeq(PrereqsOf(tech_name), LAMBDA prereq : prereq \notin TechNames)

BrokenChainIssuesFor(tech_name) ==
    SelectSeq(RunIssues, LAMBDA issue :
        /\ issue.issue_id = "BROKEN_CHAIN_" \o tech_name
        /\ issue.affected_prototypes = <<create_prototype_key(T_technology, tech_name)>>)

\* C12: the reachable set of _detect_broken_research_chains is the least fixed
\* point of "all prerequisites reachable", seeded by the technologies without
\* prerequisites; a run emits a BROKEN_CHAIN issue for technology X iff X is
\* outside that set and some prerequisite of X has no technology history, the
\* issue names exactly those prerequisites, and no other BROKEN_CHAIN issue is
\* emitted: a technology whose prerequisites are all defined is never flagged.
\* Prerequisites are those of each technology's current value.  The detector
\* reads them from the dependency graph, which keeps the edges of a superseded
\* value when the current one yields none (C22): a technology re-registered
\* without prerequisites on an analyzer that has run before is flagged again
C12_BrokenChainPrecision ==
    Analyzed =>
        /\ reachable_techs(TechDependencies(prototype_histories, dependency_graph))
               = LeastFixedPoint({})
        /\ \A x \in TechNames :
              IF x \notin LeastFixedPoint({}) /\ UndefinedPrereqs(x) # <<>>
              THEN /\ Len(BrokenChainIssuesFor(x)) = 1
                   /\ BrokenChainIssuesFor(x)[1].root_cause = UndefinedPrereqs(x)
                   /\ BrokenChainIssuesFor(x)[1].severity = "high"
              ELSE BrokenChainIssuesFor(x) = <<>>
        /\ \A k \in 1..Len(RunIssues) :
              StartsWith(RunIssues[k].issue_id, "BROKEN_CHAIN_")
                  => \E x \in TechNames : RunIssues[k] \in SetOf(BrokenChainIssuesFor(x))

----------------------------------------------------------------------------
(* Claims about availability, continued *)

\* C13: for a planet and a name among that planet's resources,
\* _is_item_available_on_planet returns True whatever recipes the tracker holds
C13_Reflexivity ==
    (/\ last_call.op = "_is_item_available_on_planet"
     /\ last_call.item_name \in PlanetResources(planet_resources, last_call.planet))
    => last_call.result = "True"

\* the item asked for is a resource of the planet, and the first recipe that
\* produces it is itself not available there (an ingredient is missing or the
\* recipes form a cycle)
C13_Witness ==
    /\ last_call.op = "_is_item_available_on_planet"
    /\ last_call.item_name \in PlanetResources(planet_resources, last_call.planet)
    /\ FirstProducer(prototype_histories, last_call.item_name) # 0
    /\ is_recipe_available_on_planet(prototype_histories, dependency_graph, planet_resources,
           prototype_histories[FirstProducer(prototype_histories, last_call.item_name)].key,
           last_call.planet, 1) # "True"

\* the planets the contexts of a list stand for, in order
PlanetsOf(contexts) == [k \in 1..Len(contexts) |-> contexts[k].planet]

IngredientTargets(dependencies) ==
    SelectSeq(dependencies, LAMBDA dep : dep.dependency_type = "RECIPE_INGREDIENT")

\* C14: _analyze_availability returns two lists; every configured planet is
\* in exactly one of them, once; it is in the available list iff every
\* RECIPE_INGREDIENT target is available on it; and the same call on the
\* ingredient dependencies alone returns the same two lists
C14_AvailabilityPartition ==
    last_call.op = "_analyze_availability" =>
        /\ last_call.raised = "none"
        /\ Len(last_call.available) + Len(last_call.unavailable) = Len(planet_resources)
        /\ \A n \in 1..Len(planet_resources) :
              LET planet == planet_resources[n].planet
                  listed_available == planet \in SetOf(PlanetsOf(last_call.available))
                  listed_unavailable == planet \in SetOf(PlanetsOf(last_call.unavailable))
              IN /\ listed_available # listed_unavailable
                 /\ listed_available <=>
                       \A k \in 1..Len(last_call.dependencies) :
                           last_call.dependencies[k].dependency_type = "RECIPE_INGREDIENT" =>
                               is_item_available_on_planet(prototype_histories,
                                   dependency_graph, planet_resources,
                                   last_call.dependencies[k].target_name, planet, 1) = "True"
        /\ LET alone == analyze_availability(prototype_histories, dependency_graph,
                             planet_resources, IngredientTargets(last_call.dependencies))
           IN /\ alone.available = last_call.available
              /\ alone.unavailable = last_call.unavailable

\* C15: analyze_dependencies always returns a report, and every prototype the
\* tracker holds has been analysed when it ends
C15_NeverAborts ==
    last_call.op = "analyze_dependencies" =>
        /\ last_call.raised = "none"
        /\ report # None
        /\ \A k \in 1..Len(prototype_histories) :
              AnalysisIdx(prototype_analyses, prototype_histories[k].key) # 0

\* the issues attached to the analysis of a key (none when it has no analysis)
AttachedTo(key) ==
    IF AnalysisIdx(prototype_analyses, key) # 0
    THEN prototype_analyses[AnalysisIdx(prototype_analyses, key)].issues
    ELSE <<>>

\* C16: after analyze_dependencies, every issue the run put in all_issues is
\* also in the issues list of the analysis of its affected prototype
C16_IssuesAttached ==
    Analyzed =>
        \A k \in 1..Len(RunIssues) :
            RunIssues[k] \in SetOf(AttachedTo(RunIssues[k].affected_prototypes[1]))

\* the issues of the last run that name the key as their affected prototype
IssuesFor(key) == SelectSeq(RunIssues, LAMBDA issue : issue.affected_prototypes = <<key>>)

\* the issues of the last run for the key whose id is the prefix followed by
\* the upper-cased prototype name
IssuesNamed(prefix, key) ==
    SelectSeq(IssuesFor(key), LAMBDA issue :
        issue.issue_id = prefix \o Upper(parse_prototype_key(key)[2]))

\* the generic CONFLICT_<KIND>_<NAME> issues of the last run for the key
GenericIssuesFor(key) ==
    SelectSeq(IssuesFor(key), LAMBDA issue :
        issue.issue_id = "CONFLICT_" \o Upper(parse_prototype_key(key)[1]) \o "_"
                             \o Upper(parse_prototype_key(key)[2]))

ConflictedKeys ==
    { get_conflicts(prototype_histories)[k].key :
        k \in 1..Len(get_conflicts(prototype_histories)) }

\* C17: in one run a conflicted key receives a generic issue iff no other
\* detector pass emits an issue for that key
C17_GenericFallback_AsStated ==
    Analyzed =>
        \A key \in ConflictedKeys :
            (GenericIssuesFor(key) # <<>>) <=> (IssuesFor(key) = GenericIssuesFor(key))

\* the packages that authored an ingredient change of a history, base aside
VariantAuthors(h) ==
    { h.modifications[k].mod_name :
        k \in { j \in 1..Len(h.modifications) :
                   ChangesIngredients(h.modifications[j])
                       /\ h.modifications[j].mod_name # "base" } }

\* C18: a RECIPE_VARIANT issue is emitted for a recipe only when exactly one
\* non-base package changed its ingredients and no multi-package issue was
\* emitted for it; a recipe authored by base alone gets none; no recipe has
\* both a MOD_RECIPE_CONFLICT and a RECIPE_VARIANT issue
C18_VariantPass ==
    Analyzed =>
        \A k \in 1..Len(prototype_histories) :
            LET h == prototype_histories[k]
            IN parse_prototype_key(h.key)[1] = T_recipe =>
                  /\ IssuesNamed("RECIPE_VARIANT_", h.key) # <<>> =>
                         /\ Cardinality(VariantAuthors(h)) = 1
                         /\ IssuesNamed("MOD_RECIPE_CONFLICT_", h.key) = <<>>
                  /\ Authors(h) = {"base"} => IssuesNamed("RECIPE_VARIANT_", h.key) = <<>>
                  /\ ~(/\ IssuesNamed("RECIPE_VARIANT_", h.key) # <<>>
                       /\ IssuesNamed("MOD_RECIPE_CONFLICT_", h.key) # <<>>)

\* C19: after a run, every prototype whose analysis has a non-empty
\* unavailable_contexts list has an availability issue, conflicted or not
C19_AvailabilityPass ==
    Analyzed =>
        \A k \in 1..Len(prototype_analyses) :
            prototype_analyses[k].unavailable_contexts # <<>>
                => IssuesNamed("AVAILABILITY_", prototype_analyses[k].prototype_key) # <<>>

\* the dependencies of a key: those its current value yields
DependenciesOf(key) ==
    ExtractDependencies(prototype_histories[HistIdx(prototype_histories, key)])

BuiltInCategories == {"recipe-category", "fuel-category"}

\* the dependencies of a key whose target has no history, built-in categories aside
MissingTargets(key) ==
    SelectSeq(DependenciesOf(key), LAMBDA dep :
        /\ dep.target_type \notin BuiltInCategories
        /\ \A k \in 1..Len(prototype_histories) :
              prototype_histories[k].key
                  # create_prototype_key(dep.target_type, dep.target_name))

\* C20: in one run, a prototype with a dependency whose target key has no
\* history (recipe-category and fuel-category targets excepted) gets exactly
\* one MISSING_DEPS issue, of high severity, listing all its missing target
\* names; a prototype whose targets all have a history or are built-in
\* categories gets none.  The pass reads the dependencies from the dependency
\* graph, which keeps the edges of a superseded value when the current one
\* yields none (C22): a prototype re-registered without dependencies on an
\* analyzer that has run before gets the issue of its old ones again
C20_MissingDependencyPass ==
    Analyzed =>
        \A k \in 1..Len(prototype_histories) :
            LET key == prototype_histories[k].key
                missing == MissingTargets(key)
                issues == IssuesNamed("MISSING_DEPS_", key)
            IN IF missing # <<>>
               THEN /\ Len(issues) = 1
                    /\ issues[1].severity = "high"
                    /\ issues[1].root_cause = [j \in 1..Len(missing) |-> missing[j].target_name]
               ELSE issues = <<>>

----------------------------------------------------------------------------
(* Claims about patch synthesis, continued *)

\* the records of the key a patch was made for
RecordsOf(key) ==
    IF HasHistory(prototype_histories, key)
    THEN prototype_histories[HistIdx(prototype_histories, key)].modifications
    ELSE <<>>

\* whether replaying the key's records gives the patch kind something to
\* build on: a package with recipe data, a record of one of the three
\* technology fields, a history at all
HasContributingData(patch) ==
    IF patch.patch_type = "recipe_variant_expansion"
    THEN \E k \in 1..Len(patch.lua_code.variants) : TRUE
    ELSE IF patch.patch_type = "comprehensive_research_modification"
    THEN \E k \in 1..Len(RecordsOf(patch.prototype_key)) :
             RecordsOf(patch.prototype_key)[k].field_path
                 \in {"prerequisites", "unit", "effects"}
    ELSE HasHistory(prototype_histories, patch.prototype_key)

\* C21: generate_patch_suggestions returns no patch made without usable
\* contributing data: every recipe patch has a package with ingredients,
\* results or category, every research patch has a record whose field path is
\* prerequisites, unit or effects, and every other patch has a history behind it
C21_NoDataNoPatch ==
    (last_call.op = "generate_patch_suggestions" /\ last_call.raised = "none") =>
        \A k \in 1..Len(last_call.returned) : HasContributingData(last_call.returned[k])

----------------------------------------------------------------------------
(* Claims about the dependency graph *)

\* the graph's edge list for a key, empty when the key is absent
EdgesOf(key) == IF key \in DOMAIN dependency_graph THEN dependency_graph[key] ELSE <<>>

\* C22: immediately after _build_dependency_graph the edge list of every key is
\* the list extracted from the key's current value, in the same order, and is
\* absent or empty when the current value yields no edges or is not a dict
C22_GraphFromCurrentValues ==
    (last_call.op = "_build_dependency_graph" /\ last_call.raised = "none") =>
        \A k \in 1..Len(prototype_histories) :
            EdgesOf(prototype_histories[k].key) = ExtractDependencies(prototype_histories[k])

----------------------------------------------------------------------------
(* Claims about wide availability *)

\* the configured planets on which the item is available
PlanetsWith(item_name) ==
    {k \in 1..Len(planet_resources) :
        is_item_available_on_planet(prototype_histories, dependency_graph,
            planet_resources, item_name, planet_resources[k].planet, 1) = "True"}

\* C23: _is_item_widely_available(item) is true exactly when the planets on
\* which the item is available are at least three quarters of the configured
\* planets (4 * available >= 3 * total), so it is true for every item when no
\* planet is configured
C23_WidelyAvailable ==
    last_call.op = "_is_item_widely_available" =>
        /\ last_call.result \in {"True", "False"}
        /\ last_call.result = "True"
              <=> 4 * Cardinality(PlanetsWith(last_call.item_name))
                      >= 3 * Len(planet_resources)
        /\ Len(planet_resources) = 0 => last_call.result = "True"

\* an item available on three of four planets was found widely available
C23_Witness ==
    /\ last_call.op = "_is_item_widely_available"
    /\ Len(planet_resources) = 4
    /\ Cardinality(PlanetsWith(last_call.item_name)) = 3
    /\ last_call.result = "True"

----------------------------------------------------------------------------
(* Claims about the report *)

\* C24: the report last returned is a snapshot: its per-severity counts are
\* the numbers of issues of that severity in its all_issues list (the list the
\* analyzer goes on appending to), whatever the analyzer has done since
C24_ReportSnapshot ==
    report # None =>
        /\ report.critical_issues = CountSeverity(all_issues, "critical")
        /\ report.high_issues = CountSeverity(all_issues, "high")
        /\ report.medium_issues = CountSeverity(all_issues, "medium")
        /\ report.low_issues = CountSeverity(all_issues, "low")

----------------------------------------------------------------------------
(* Claims about keys *)

\* C26: for a kind that is non-empty and holds no separator, and any name,
\* separators in it or not, parsing the key created from (kind, name) gives
\* back exactly (kind, name)
C26_KeyRoundTrip ==
    (/\ last_call.op = "parse_prototype_key"
     /\ last_call.prototype_type # ""
     /\ ~Contains(last_call.prototype_type, Dot)) =>
        /\ last_call.raised = "none"
        /\ last_call.parsed = <<last_call.prototype_type, last_call.prototype_name>>

\* the key of a recipe whose name holds a separator has been created and parsed
C26_Witness ==
    /\ last_call.op = "parse_prototype_key"
    /\ last_call.prototype_type = T_recipe
    /\ Contains(last_call.prototype_name, Dot)
    /\ last_call.parsed = <<T_recipe, last_call.prototype_name>>

----------------------------------------------------------------------------
(* Claims about the essential-prototype pass *)

\* the ingredient names of a list, from entries in object form and from
\* entries in the legacy [name, amount] pair form
NamedIngredients(value) ==
    IF ~IsList(value) THEN {}
    ELSE {Get(value.items[k], "name", None).s :
              k \in {j \in 1..Len(value.items) :
                        IsDict(value.items[j]) /\ Truthy(Get(value.items[j], "name", None))}}
         \cup {value.items[k].items[1].s :
                  k \in {j \in 1..Len(value.items) :
                            IsList(value.items[j]) /\ Len(value.items[j].items) >= 2}}

\* the records of a key whose field path is 'ingredients'
IngredientRecords(key) ==
    SelectSeq(RecordsOf(key), LAMBDA record : record.field_path = "ingredients")

\* whether some ingredient of the last 'ingredients' record is not widely available
HasScarceIngredient(key) ==
    \E name \in NamedIngredients(IngredientRecords(key)[Len(IngredientRecords(key))].new_value) :
        is_item_widely_available(prototype_histories, dependency_graph,
                                 planet_resources, name) = "False"

\* C27: for an essential recipe modified by more than one package and having
\* an 'ingredients' record, the CRITICAL_RECIPE issue is critical when some
\* ingredient of the last such record's new value, in object or pair form, is
\* not widely available, and high otherwise
C27_EssentialSeverity ==
    Analyzed =>
        \A k \in 1..Len(prototype_histories) :
            LET h == prototype_histories[k]
                name == parse_prototype_key(h.key)[2]
            IN (/\ parse_prototype_key(h.key)[1] = T_recipe
                /\ name \in Essential
                /\ Cardinality({ModNames(h)[j] : j \in 1..Len(h.modifications)}) > 1
                /\ IngredientRecords(h.key) # <<>>) =>
                   \A i \in 1..Len(RunIssues) :
                       RunIssues[i].issue_id = "CRITICAL_RECIPE_" \o Upper(name) =>
                           RunIssues[i].severity =
                               IF HasScarceIngredient(h.key) THEN "critical" ELSE "high"

----------------------------------------------------------------------------
(* Claims about the orchestrator *)

\* C28: during analyze_conflicts every track_prototype_addition call, those of
\* the base game included, is made under a context naming the mod whose files
\* are being parsed, so the prototype is recorded; no context is left open
\* between mods; and the analyzer is constructed only after the last mod's
\* context has been cleared
C28_IngestionProtocol ==
    /\ [](/\ (last_call.op = "track_prototype_addition" /\ "parsing" \in DOMAIN last_call) =>
                /\ last_call.context # None
                /\ last_call.context.mod_name = last_call.parsing
                /\ last_call.stored
          /\ last_call.op = "clear_mod_context" => current_mod_context = None)
    /\ [][last_call'.op = "DependencyAnalyzer" =>
              /\ current_mod_context = None
              /\ last_call.index = Len(last_call.mods)]_vars

----------------------------------------------------------------------------
(* Claims about issue identifiers *)

\* C29: in the issues of one analysis run, two issues whose affected
\* prototype keys differ never have the same issue_id
C29_IssueIdsInjective ==
    Analyzed =>
        \A i, j \in 1..Len(RunIssues) :
            RunIssues[i].affected_prototypes # RunIssues[j].affected_prototypes
                => RunIssues[i].issue_id # RunIssues[j].issue_id

----------------------------------------------------------------------------
(* Claims about producing recipes *)

\* the positions, in insertion order, of the recipes whose current value
\* lists the item among its results
ProducersOf(item_name) ==
    {i \in 1..Len(prototype_histories) : Produces(prototype_histories[i], item_name)}

\* what _is_recipe_available_on_planet gives for the recipe at a position,
\* called from _is_item_available_on_planet
RecipeVerdict(i, planet) ==
    is_recipe_available_on_planet(prototype_histories, dependency_graph, planet_resources,
                                  prototype_histories[i].key, planet, 2)

\* C30: for an item that is not a resource of the planet, a call of
\* _is_item_available_on_planet that returns gives the availability of the
\* first recipe, in insertion order, that produces the item, and false when no
\* recipe produces it; no later producer is consulted
C30_FirstProducerOnly ==
    (/\ last_call.op = "_is_item_available_on_planet"
     /\ last_call.item_name \notin PlanetResources(planet_resources, last_call.planet)
     /\ last_call.result \in {"True", "False"}) =>
        IF ProducersOf(last_call.item_name) = {} THEN last_call.result = "False"
        ELSE \E i \in ProducersOf(last_call.item_name) :
                /\ \A j \in ProducersOf(last_call.item_name) : i <= j
                /\ last_call.result = RecipeVerdict(i, last_call.planet)

\* the verdict was false although a later recipe that produces the item is
\* available on the planet
C30_Witness ==
    /\ last_call.op = "_is_item_available_on_planet"
    /\ last_call.item_name \notin PlanetResources(planet_resources, last_call.planet)
    /\ last_call.result = "False"
    /\ \E i \in ProducersOf(last_call.item_name) :
          RecipeVerdict(i, last_call.planet) = "True"

====
